---- MODULE Spec2Model ----
(***************************************************************************)
(* Neuro-Struct: the filename/metadata resolution engine.                  *)
(*                                                                         *)
(* Strings are modelled as sequences of one-character strings, so that the *)
(* regular expressions, str.zfill, int(), str() and format(..., "02d") of  *)
(* the source are computed character by character.                         *)
(***************************************************************************)
EXTENDS Integers, Sequences, FiniteSets, TLC

VARIABLES
    filename,      \* FilenameParser: the name handed to the parser
    dyad_lookup,   \* FilenameParser.dyad_lookup
    call,          \* FilenameParser: the method that was called ("" before)
    ret,           \* FilenameParser: what that method returned
    dyad_csv,      \* the dyad-list file: [status, rows]
    dyad_ret,      \* load_dyad_mapping: [called, raised, value]
    demo_csv,      \* the demographics file: [status, rows]
    demo_pc,       \* load_demographics: "ready", "loop" or "returned"
    demo_i,        \* load_demographics: the rows processed so far
    lookup,        \* load_demographics: its local dictionary
    demo_ret,      \* load_demographics: [raised, value]
    nirs_pc,       \* NirsConverter.run: where it is
    source_dir,    \* NirsConverter.source_dir: "None", "missing" or "exists"
    listing,       \* the names in the source directory
    snirf_files,   \* NirsConverter.run: its sorted list of files
    nirs_i,        \* NirsConverter.run: the files processed so far
    self_dyad_lookup,  \* NirsConverter.dyad_lookup
    self_demo_lookup,  \* NirsConverter.demo_lookup
    written,       \* the recordings written by write_raw_bids, in order
    bids_root_made,    \* NirsConverter: bids_root.mkdir was called
    finalization,  \* NirsConverter.run: the finalization steps made, in order
    h_call,        \* a handler called on its own: which one ("" before)
    h_args,        \* ... its arguments
    h_ret,         \* ... what it returned or raised
    drv,           \* a driver run: "artworks", "coordinates" or "mocap"
    drv_pc,        \* run: where it is
    drv_source,    \* source_dir: "None", "missing" or "exists"
    drv_listing,   \* the names in the source directory
    drv_files,     \* run: its sorted list of candidates
    drv_i,         \* run: the candidates processed so far
    success_count, \* run: success_count
    fail_count,    \* run: fail_count / failure_count
    copied,        \* the copies made by perform_copy, in order
    reported,      \* the final reports printed: each [success, failures]
    output_made    \* _validate_paths: the output root's mkdir was called

parser_vars == <<filename, dyad_lookup, call, ret>>
dyad_vars   == <<dyad_csv, dyad_ret>>
demo_vars   == <<demo_csv, demo_pc, demo_i, lookup, demo_ret>>
nirs_vars   == <<nirs_pc, source_dir, listing, snirf_files, nirs_i,
                 self_dyad_lookup, self_demo_lookup, written, bids_root_made,
                 finalization>>
handler_vars == <<h_call, h_args, h_ret>>
drv_vars    == <<drv, drv_pc, drv_source, drv_listing, drv_files, drv_i,
                 success_count, fail_count, copied, reported, output_made>>

(***************************************************************************)
(* Characters.                                                             *)
(***************************************************************************)
LowerAlpha ==
    << "a", "b", "c", "d", "e", "f", "g", "h", "i", "j", "k", "l", "m",
       "n", "o", "p", "q", "r", "s", "t", "u", "v", "w", "x", "y", "z" >>

UpperAlpha ==
    << "A", "B", "C", "D", "E", "F", "G", "H", "I", "J", "K", "L", "M",
       "N", "O", "P", "Q", "R", "S", "T", "U", "V", "W", "X", "Y", "Z" >>

DigitChars == << "0", "1", "2", "3", "4", "5", "6", "7", "8", "9" >>

\* Python's None. A string is a sequence of one-character strings, so this
\* one-element sequence is no string.
None == << "None" >>

\* \d of the regular expressions
IsDigit(c) == \E i \in 1..10 : DigitChars[i] = c

\* str.lower() on one character
Lower(c) ==
    IF \E i \in 1..26 : UpperAlpha[i] = c
    THEN LowerAlpha[CHOOSE i \in 1..26 : UpperAlpha[i] = c]
    ELSE c

\* str.lower()
LowerStr(s) == [k \in 1..Len(s) |-> Lower(s[k])]

\* [a-z] under re.IGNORECASE
IsLetter(c) == \E i \in 1..26 : LowerAlpha[i] = Lower(c)

\* a mutant of OrdMinus96: ord(char) - 97
OrdMinus97(c) == (CHOOSE i \in 1..26 : LowerAlpha[i] = c) - 1

\* ord(char) - 96 for a lowercase letter
OrdMinus96(c) == CHOOSE i \in 1..26 : LowerAlpha[i] = c

\* int(s) for a string of decimal digits
RECURSIVE int(_)
int(s) ==
    IF s = << >> THEN 0
    ELSE int(SubSeq(s, 1, Len(s) - 1)) * 10
         + ((CHOOSE i \in 1..10 : DigitChars[i] = s[Len(s)]) - 1)

\* str(n) for n >= 0
RECURSIVE str(_)
str(n) ==
    IF n < 10 THEN << DigitChars[n + 1] >>
    ELSE str(n \div 10) \o << DigitChars[(n % 10) + 1] >>

\* s.zfill(2): pads on the left, never removes a character
zfill2(s) ==
    IF Len(s) >= 2 THEN s
    ELSE IF Len(s) = 1 THEN << "0" >> \o s
    ELSE << "0", "0" >>

\* f"{n:02d}" for n >= 0
fmt02d(n) == zfill2(str(n))

(***************************************************************************)
(* Regular expressions: re.search(pattern, filename, re.IGNORECASE).       *)
(***************************************************************************)
\* a literal (given in lower case) matches at position i, case-insensitively
LitAt(s, i, lit) ==
    /\ i >= 1
    /\ i + Len(lit) - 1 <= Len(s)
    /\ \A k \in 1..Len(lit) : Lower(s[i + k - 1]) = lit[k]

\* (\d+) at position i is greedy: the end of the longest run of digits from i
\* (i - 1 when there is no digit at i)
DigitRunEnd(s, i) ==
    LET ends == { j \in (i - 1)..Len(s) : \A k \in i..j : IsDigit(s[k]) }
    IN  CHOOSE j \in ends : \A j2 \in ends : j2 <= j

DigitsAt(s, i) == i >= 1 /\ i <= Len(s) /\ IsDigit(s[i])

\* the smallest element of a non-empty set of positions: re.search returns
\* the leftmost match
Leftmost(S) == CHOOSE i \in S : \A j \in S : i <= j

(***************************************************************************)
(* A pattern is a sequence of items: a literal (a string, in lower case,   *)
(* since every search is case-insensitive) or one of the markers below.    *)
(***************************************************************************)
DIGITS    == << "(\\d+)" >>          \* (\d+), a capturing group
LETTER    == << "([a-z])" >>         \* ([a-z]) or [a-z]; captured
OPT_HYPH  == << "-?" >>              \* -?
SES_ALT   == << "(?:ses|session)" >> \* (?:ses|session)
BOL       == << "^" >>               \* ^
EOL       == << "$" >>               \* $

NoMatch == [ok |-> FALSE, groups |-> << >>]

\* the items pat[k..] matched at position i of s, as the backtracking
\* matcher of re does it: the groups captured, or NoMatch
RECURSIVE MatchFrom(_, _, _, _)
MatchFrom(s, i, pat, k) ==
    IF k > Len(pat) THEN [ok |-> TRUE, groups |-> << >>]
    ELSE LET item == pat[k] IN
      IF item = DIGITS THEN
          IF ~DigitsAt(s, i) THEN NoMatch
          ELSE LET e == DigitRunEnd(s, i)
                   rest == MatchFrom(s, e + 1, pat, k + 1)
               IN  IF rest.ok
                   THEN [ok |-> TRUE,
                         groups |-> << SubSeq(s, i, e) >> \o rest.groups]
                   ELSE NoMatch
      ELSE IF item = LETTER THEN
          IF ~(i <= Len(s) /\ IsLetter(s[i])) THEN NoMatch
          ELSE LET rest == MatchFrom(s, i + 1, pat, k + 1)
               IN  IF rest.ok
                   THEN [ok |-> TRUE, groups |-> << << s[i] >> >> \o rest.groups]
                   ELSE NoMatch
      ELSE IF item = OPT_HYPH THEN
          LET with == IF i <= Len(s) /\ s[i] = "-"
                      THEN MatchFrom(s, i + 1, pat, k + 1) ELSE NoMatch
          IN  IF with.ok THEN with ELSE MatchFrom(s, i, pat, k + 1)
      ELSE IF item = SES_ALT THEN
          LET first == IF LitAt(s, i, << "s", "e", "s" >>)
                       THEN MatchFrom(s, i + 3, pat, k + 1) ELSE NoMatch
          IN  IF first.ok THEN first
              ELSE IF LitAt(s, i, << "s", "e", "s", "s", "i", "o", "n" >>)
                   THEN MatchFrom(s, i + 7, pat, k + 1) ELSE NoMatch
      ELSE IF item = BOL THEN
          IF i = 1 THEN MatchFrom(s, i, pat, k + 1) ELSE NoMatch
      ELSE IF item = EOL THEN
          IF i = Len(s) + 1 THEN MatchFrom(s, i, pat, k + 1) ELSE NoMatch
      ELSE IF LitAt(s, i, item) THEN MatchFrom(s, i + Len(item), pat, k + 1)
      ELSE NoMatch

\* re.search(pat, s, re.IGNORECASE): the match at the leftmost position
re_search(pat, s) ==
    LET starts == { i \in 1..(Len(s) + 1) : MatchFrom(s, i, pat, 1).ok }
    IN  IF starts = {} THEN NoMatch ELSE MatchFrom(s, Leftmost(starts), pat, 1)

\* the patterns of FilenameParser
PAT_sub          == << << "s", "u", "b" >>, OPT_HYPH, DIGITS >>
PAT_ses_special  == << << "s", "e", "s", "s", "i", "o", "n", "-" >>, LETTER,
                       << "_" >>, DIGITS >>
PAT_ses_standard == << SES_ALT, OPT_HYPH, DIGITS >>
PAT_run          == << << "r", "u", "n" >>, OPT_HYPH, DIGITS >>
PAT_run_special  == << << "s", "e", "s", "s", "i", "o", "n", "-" >>, LETTER >>
PAT_art_dyad     == << << "d", "y", "a", "d", "-" >>, DIGITS, << "-", "d" >>,
                       DIGITS,
                       << "_", "s", "e", "s", "s", "i", "o", "n", "-" >>,
                       DIGITS >>
PAT_art_solo     == << << "s", "u", "b", "-" >>, DIGITS,
                       << "-", "s", "o", "l", "o", "_",
                          "s", "e", "s", "s", "i", "o", "n", "-" >>,
                       DIGITS >>
PAT_coord        == << BOL, << "s", "u", "b", "-" >>, DIGITS,
                       << "_", "s", "e", "s", "s", "i", "o", "n", "-" >>,
                       DIGITS, EOL >>

(***************************************************************************)
(* FilenameParser.                                                         *)
(***************************************************************************)
\* dict.get(key): None when the key is absent
dict_get(d, key) == IF key \in DOMAIN d THEN d[key] ELSE None

\* sub_id_str is always a run of digits here, so int() cannot raise
_get_dyad_for_sub(table, sub_id_str) == dict_get(table, str(int(sub_id_str)))

parse_subject(f) ==
    LET match == re_search(PAT_sub, f)
    IN  IF match.ok THEN zfill2(match.groups[1]) ELSE None

parse_session(f) ==
    LET special_match == re_search(PAT_ses_special, f)
        standard_match == re_search(PAT_ses_standard, f)
    IN  IF special_match.ok THEN zfill2(special_match.groups[2])
        ELSE IF standard_match.ok THEN zfill2(standard_match.groups[1])
        ELSE None

\* a mutant of parse_run: the default run is not padded
parse_run_UnpaddedDefault(f) ==
    LET run_match == re_search(PAT_run, f)
        special_match == re_search(PAT_run_special, f)
    IN  IF run_match.ok THEN fmt02d(int(run_match.groups[1]))
        ELSE IF special_match.ok
        THEN fmt02d(OrdMinus96(Lower(special_match.groups[1][1])))
        ELSE << "1" >>

\* a mutant of parse_run: the letter of the session is tried before the
\* explicit run tag
parse_run_SpecialFirst(f) ==
    LET run_match == re_search(PAT_run, f)
        special_match == re_search(PAT_run_special, f)
    IN  IF special_match.ok
        THEN fmt02d(OrdMinus96(Lower(special_match.groups[1][1])))
        ELSE IF run_match.ok THEN fmt02d(int(run_match.groups[1]))
        ELSE << "0", "1" >>

parse_run(f) ==
    LET run_match == re_search(PAT_run, f)
        special_match == re_search(PAT_run_special, f)
    IN  IF run_match.ok THEN fmt02d(int(run_match.groups[1]))
        ELSE IF special_match.ok
        THEN fmt02d(OrdMinus96(Lower(special_match.groups[1][1])))
        ELSE << "0", "1" >>

Falsy(x) == x = None \/ x = << >>

\* what a parsing method returns: none is TRUE when it returned None (or the
\* tuple (None, None, None)); the fields a method does not set are None
NoResult ==
    [none |-> TRUE, sub |-> None, ses |-> None, run |-> None,
     dyad |-> None, task |-> None, task_num |-> None]

Together == << "together" >>
Solo     == << "solo" >>

\* a mutant of parse_common_components: only the subject is required
parse_common_components_NoSesGuard(f) ==
    LET sub == parse_subject(f)
        ses == parse_session(f)
    IN  IF Falsy(sub) THEN NoResult
        ELSE [NoResult EXCEPT !.none = FALSE, !.sub = sub, !.ses = ses,
                              !.run = parse_run(f)]

parse_common_components(f) ==
    LET sub == parse_subject(f)
        ses == parse_session(f)
    IN  IF Falsy(sub) \/ Falsy(ses) THEN NoResult
        ELSE [NoResult EXCEPT !.none = FALSE, !.sub = sub, !.ses = ses,
                              !.run = parse_run(f)]

\* a mutant of parse_artwork_filename: the solo pattern is tried first
parse_artwork_filename_SoloFirst(table, f) ==
    LET dyad_match == re_search(PAT_art_dyad, f)
        solo_match == re_search(PAT_art_solo, f)
    IN  IF solo_match.ok
        THEN [NoResult EXCEPT !.none = FALSE,
                              !.sub = zfill2(solo_match.groups[1]),
                              !.dyad = _get_dyad_for_sub(table, solo_match.groups[1]),
                              !.ses = zfill2(solo_match.groups[2]),
                              !.task = Solo]
        ELSE IF dyad_match.ok
        THEN [NoResult EXCEPT !.none = FALSE,
                              !.dyad = dyad_match.groups[1],
                              !.ses = zfill2(dyad_match.groups[3]),
                              !.task = Together,
                              !.task_num = dyad_match.groups[2]]
        ELSE NoResult

parse_artwork_filename(table, f) ==
    LET dyad_match == re_search(PAT_art_dyad, f)
        solo_match == re_search(PAT_art_solo, f)
    IN  IF dyad_match.ok
        THEN [NoResult EXCEPT !.none = FALSE,
                              !.dyad = dyad_match.groups[1],
                              !.ses = zfill2(dyad_match.groups[3]),
                              !.task = Together,
                              !.task_num = dyad_match.groups[2]]
        ELSE IF solo_match.ok
        THEN [NoResult EXCEPT !.none = FALSE,
                              !.sub = zfill2(solo_match.groups[1]),
                              !.dyad = _get_dyad_for_sub(table, solo_match.groups[1]),
                              !.ses = zfill2(solo_match.groups[2]),
                              !.task = Solo]
        ELSE NoResult

parse_coordinates_folder(table, folder_name) ==
    LET match == re_search(PAT_coord, folder_name)
    IN  IF match.ok
        THEN [NoResult EXCEPT !.none = FALSE,
                              !.sub = zfill2(match.groups[1]),
                              !.ses = zfill2(match.groups[2]),
                              !.dyad = _get_dyad_for_sub(table, match.groups[1])]
        ELSE NoResult

(***************************************************************************)
(* The lookup tables (loaders.py).  pd.read_csv(dtype=str) gives every     *)
(* cell as a string, or NaN for an empty cell.                             *)
(***************************************************************************)
NaN == << "NaN" >>

\* pd.notna
notna(x) == x # NaN

\* int(x) succeeds on a non-empty run of digits and raises ValueError on the
\* other cells of the tables below (NaN included)
IntOk(x) == x # NaN /\ x # << >> /\ \A k \in 1..Len(x) : IsDigit(x[k])

\* the outcome of a block of code: the exception it raised ("" for none)
\* and its value
Returned(v) == [exc |-> "", value |-> v]
Raised(e)   == [exc |-> e, value |-> << >>]

\* a mutant of ExceptException: only a missing column is caught
ExceptKeyError(e) == e = "KeyError"

\* "except Exception" catches every exception raised in the try block
ExceptException(e) == e # ""

--------------------------------------------------------------------------
\* load_dyad_mapping

\* a mutant of melt: row by row, pID1 then pID2 of each row
melt_RowMajor(rows) ==
    [ i \in 1..(2 * Len(rows)) |->
        IF i % 2 = 1
        THEN [dyadID |-> rows[(i + 1) \div 2].dyadID,
              sub_id |-> rows[(i + 1) \div 2].pID1]
        ELSE [dyadID |-> rows[i \div 2].dyadID,
              sub_id |-> rows[i \div 2].pID2] ]

\* df.melt(id_vars=['dyadID'], value_vars=['pID1', 'pID2'],
\* value_name='sub_id'): the pID1 cells of all rows, then the pID2 cells
melt(rows) ==
    [ i \in 1..(2 * Len(rows)) |->
        IF i <= Len(rows)
        THEN [dyadID |-> rows[i].dyadID, sub_id |-> rows[i].pID1]
        ELSE [dyadID |-> rows[i - Len(rows)].dyadID,
              sub_id |-> rows[i - Len(rows)].pID2] ]

\* a mutant of normalize_sub_id: the cell is kept as it is read
normalize_sub_id_Identity(x) == x

\* lambda x: str(int(x)) if pd.notna(x) else x
normalize_sub_id(x) == IF notna(x) THEN str(int(x)) ELSE x

\* long_df.set_index('sub_id')['dyadID'].to_dict(): a later entry of the
\* same key overwrites an earlier one
to_dict(long) ==
    LET keys == { long[i].sub_id : i \in 1..Len(long) }
        last(k) == CHOOSE i \in 1..Len(long) :
                       /\ long[i].sub_id = k
                       /\ \A j \in 1..Len(long) : long[j].sub_id = k => j <= i
    IN  [ k \in keys |-> long[last(k)].dyadID ]

\* the try block of load_dyad_mapping
dyad_try(csv) ==
    IF csv.status = "unreadable" THEN Raised("ParserError")
    ELSE IF csv.status = "no_columns" THEN Raised("KeyError")
    ELSE LET long_df == melt(csv.rows)
         IN  IF \E i \in 1..Len(long_df) :
                    notna(long_df[i].sub_id) /\ ~IntOk(long_df[i].sub_id)
             THEN Raised("ValueError")
             ELSE Returned(to_dict(
                      [ i \in 1..Len(long_df) |->
                          [long_df[i] EXCEPT
                              !.sub_id = normalize_sub_id(long_df[i].sub_id)] ]))

load_dyad_mapping(csv) ==
    IF csv.status = "missing" THEN [raised |-> FALSE, value |-> << >>]
    ELSE LET r == dyad_try(csv)
         IN  IF r.exc = "" THEN [raised |-> FALSE, value |-> r.value]
             ELSE IF ExceptException(r.exc)
             THEN [raised |-> FALSE, value |-> << >>]
             ELSE [raised |-> TRUE, value |-> << >>]

--------------------------------------------------------------------------
\* load_demographics

\* a mutant of sex_code: the gender is compared as it is written
sex_code_CaseSensitive(gender) ==
    LET g == gender
    IN  IF g = << "m", "a", "l", "e" >> \/ g = << "m" >> THEN 1
        ELSE IF g = << "f", "e", "m", "a", "l", "e" >> \/ g = << "f" >> THEN 2
        ELSE 0

\* sex_map.get(str(row['gender']).lower(), 0); str(NaN) is "nan"
sex_code(gender) ==
    LET g == IF gender = NaN THEN << "n", "a", "n" >> ELSE LowerStr(gender)
    IN  IF g = << "m", "a", "l", "e" >> \/ g = << "m" >> THEN 1
        ELSE IF g = << "f", "e", "m", "a", "l", "e" >> \/ g = << "f" >> THEN 2
        ELSE 0

\* key = f"{p_id}_{visit}" with p_id = str(int(row['p_id'])) and
\* visit = f"{int(row['visit']):02d}"
demo_key(row) == str(int(row.p_id)) \o << "_" >> \o fmt02d(int(row.visit))

demo_record(row) == [age |-> row.age, sex |-> sex_code(row.gender)]

\* lookup[key] = value
dict_set(d, key, value) ==
    [ k \in (DOMAIN d) \cup {key} |-> IF k = key THEN value ELSE d[k] ]


(***************************************************************************)
(* The names the parser is given.                                          *)
(***************************************************************************)
\* how a name may carry its subject
SubParts ==
    { << >>,
      << "s", "u", "b", "-", "7" >>,
      << "s", "u", "b", "-", "0", "7" >>,
      << "s", "u", "b", "-", "0", "0", "7" >>,
      << "S", "U", "B", "7" >>,
      << "s", "u", "b", "-", "1", "0", "2" >> }

\* how a name may carry its session
SesParts ==
    { << >>,
      << "s", "e", "s", "s", "i", "o", "n", "-", "1" >>,
      << "s", "e", "s", "s", "i", "o", "n", "-", "0", "1" >>,
      << "s", "e", "s", "s", "i", "o", "n", "-", "0", "0", "1" >>,
      << "s", "e", "s", "-", "3" >>,
      << "s", "e", "s", "s", "i", "o", "n", "-", "a", "_", "0", "1" >>,
      << "s", "e", "s", "s", "i", "o", "n", "-", "B", "_", "2" >>,
      << "S", "e", "s", "s", "i", "o", "n", "-", "b", "_", "0", "0", "3" >>,
      << "s", "e", "s", "s", "i", "o", "n", "-", "c" >>,
      << "s", "e", "s", "s", "i", "o", "n", "-", "x", "_", "s", "e", "s", "s", "i", "o", "n", "-", "b", "_", "2" >> }

\* how a name may carry its run
RunParts ==
    { << >>,
      << "r", "u", "n", "-", "5" >>,
      << "R", "U", "N", "1", "2" >>,
      << "r", "u", "n", "-", "0", "0", "3" >> }

\* extensions
ExtParts ==
    { << >>,
      << ".", "s", "n", "i", "r", "f" >> }

\* names of artwork files
ArtNames ==
    { << "d", "y", "a", "d", "-", "1", "0", "0", "1", "-", "D", "2", "_", "s", "e", "s", "s", "i", "o", "n", "-", "3", ".", "t", "i", "f" >>,
      << "d", "y", "a", "d", "-", "1", "0", "0", "1", "-", "D", "2", "_", "s", "e", "s", "s", "i", "o", "n", "-", "0", "0", "3", ".", "t", "i", "f" >>,
      << "D", "Y", "A", "D", "-", "1", "0", "0", "1", "-", "d", "2", "_", "S", "E", "S", "S", "I", "O", "N", "-", "3", ".", "T", "I", "F" >>,
      << "s", "u", "b", "-", "1", "0", "2", "-", "s", "o", "l", "o", "_", "s", "e", "s", "s", "i", "o", "n", "-", "1", ".", "j", "p", "g" >>,
      << "s", "u", "b", "-", "0", "0", "7", "-", "s", "o", "l", "o", "_", "s", "e", "s", "s", "i", "o", "n", "-", "0", "1", ".", "j", "p", "g" >>,
      << "s", "u", "b", "-", "7", "-", "s", "o", "l", "o", "_", "s", "e", "s", "s", "i", "o", "n", "-", "1", ".", "J", "P", "G" >>,
      << "d", "y", "a", "d", "-", "1", "0", "0", "1", "-", "D", "2", "_", "s", "e", "s", "s", "i", "o", "n", "-", "3", "_", "s", "u", "b", "-", "1", "0", "2", "-", "s", "o", "l", "o", "_", "s", "e", "s", "s", "i", "o", "n", "-", "1", ".", "p", "n", "g" >>,
      << "s", "u", "b", "-", "1", "0", "2", "-", "s", "o", "l", "o", "_", "s", "e", "s", "s", "i", "o", "n", "-", "1", "_", "d", "y", "a", "d", "-", "1", "0", "0", "1", "-", "D", "2", "_", "s", "e", "s", "s", "i", "o", "n", "-", "3", ".", "t", "i", "f" >>,
      << "n", "o", "t", "e", "s", ".", "p", "n", "g" >> }

\* the parts of a name are joined by "_"
JoinParts(a, b) ==
    IF a = << >> THEN b ELSE IF b = << >> THEN a ELSE a \o << "_" >> \o b

StdNames ==
    { JoinParts(JoinParts(su, se), ru) \o ex :
        su \in SubParts, se \in SesParts, ru \in RunParts, ex \in ExtParts }

FileNames == StdNames \cup ArtNames

\* the dyad tables a parser may hold (keys are normalised subject ids)
ParserDyadMaps ==
    { << >>,
      (<< "1", "0", "2" >> :> << "2", "0", "0", "2" >>),
      (<< "7" >> :> << "1", "0", "0", "1" >>) @@ (<< "1", "0", "2" >> :> << "2", "0", "0", "2" >>) }

(***************************************************************************)
(* The tables the loaders are given.                                       *)
(***************************************************************************)
MaxDyadRows == 2
MaxDemoRows == 2

SeqsUpTo(S, n) == UNION { [1..k -> S] : k \in 0..n }

DyadIds  == { << "1", "0", "0", "1" >>, << "2", "0", "0", "2" >> }
PidCells == { << "1" >>, << "0", "1" >>, << "2" >>, NaN, << "x" >> }
DyadRows == [dyadID : DyadIds, pID1 : PidCells, pID2 : PidCells]

\* the file is missing, cannot be read as a table, lacks a column, or is a
\* table of rows
DyadCsvs ==
    { [status |-> s, rows |-> << >>] : s \in {"missing", "unreadable", "no_columns"} }
    \cup { [status |-> "ok", rows |-> r] : r \in SeqsUpTo(DyadRows, MaxDyadRows) }

DemoRowR(p, v, g, a) == [p_id |-> p, visit |-> v, gender |-> g, age |-> a]

DemoRows ==
    { DemoRowR(<< "0", "7" >>, << "1" >>, << "F" >>, << "3", "4" >>),
      DemoRowR(<< "7" >>, << "0", "1" >>, << "m", "a", "l", "e" >>, << "3", "0" >>),
      DemoRowR(<< "1", "0", "1" >>, << "2" >>, << "F", "e", "m", "a", "l", "e" >>, NaN),
      DemoRowR(<< "8" >>, << "1", "2" >>, << "M" >>, << "4", "1" >>),
      DemoRowR(<< "8" >>, << "1" >>, << "o", "t", "h", "e", "r" >>, << "2", "2" >>),
      DemoRowR(<< "9" >>, << "1" >>, NaN, << "1", "9" >>),
      DemoRowR(<< "9" >>, << "x" >>, << "f" >>, << "2", "0" >>),
      DemoRowR(<< "x" >>, << "1" >>, << "m" >>, << "2", "0" >>),
      DemoRowR(NaN, << "1" >>, << "m" >>, << "2", "0" >>) }

DemoCsvs ==
    { [status |-> s, rows |-> << >>] : s \in {"missing", "unreadable"} }
    \cup { [status |-> "no_columns", rows |-> r] : r \in SeqsUpTo(DemoRows, 1) }
    \cup { [status |-> "ok", rows |-> r] : r \in SeqsUpTo(DemoRows, MaxDemoRows) }

NoCsv == [status |-> "missing", rows |-> << >>]

(***************************************************************************)
(* The loaders as a state machine.  load_dyad_mapping is one step (the     *)
(* table is transformed as a whole); load_demographics is a loop over the  *)
(* rows.                                                                   *)
(***************************************************************************)
\* the try of one iteration of "for _, row in df.iterrows()"
demo_row_try(csv, lk, row) ==
    IF csv.status = "no_columns" THEN Raised("KeyError")
    ELSE IF ~IntOk(row.p_id) \/ ~IntOk(row.visit) THEN Raised("ValueError")
    ELSE Returned(dict_set(lk, demo_key(row), demo_record(row)))

\* the loop of load_demographics from row i + 1 on, with lookup lk
RECURSIVE demo_loop(_, _, _)
demo_loop(csv, i, lk) ==
    IF i = Len(csv.rows) THEN Returned(lk)
    ELSE LET r == demo_row_try(csv, lk, csv.rows[i + 1])
         IN  IF r.exc = "" THEN demo_loop(csv, i + 1, r.value) ELSE r

\* load_demographics as a whole
load_demographics(csv) ==
    IF csv.status = "missing" THEN [raised |-> FALSE, value |-> << >>]
    ELSE LET r == IF csv.status = "unreadable" THEN Raised("ParserError")
                  ELSE demo_loop(csv, 0, << >>)
         IN  IF r.exc = "" THEN [raised |-> FALSE, value |-> r.value]
             ELSE IF ExceptException(r.exc)
             THEN [raised |-> FALSE, value |-> << >>]
             ELSE [raised |-> TRUE, value |-> << >>]

NotCalled == [called |-> FALSE, raised |-> FALSE, value |-> << >>]
NotReturned == [raised |-> FALSE, value |-> << >>]

LoadersIdle ==
    /\ dyad_csv = NoCsv
    /\ dyad_ret = NotCalled
    /\ demo_csv = NoCsv
    /\ demo_pc = "ready"
    /\ demo_i = 0
    /\ lookup = << >>
    /\ demo_ret = NotReturned

ParserIdle ==
    /\ filename = << >>
    /\ dyad_lookup = << >>
    /\ call = ""
    /\ ret = NoResult

NirsIdle ==
    /\ nirs_pc = "idle"
    /\ source_dir = "None"
    /\ listing = {}
    /\ snirf_files = << >>
    /\ nirs_i = 0
    /\ self_dyad_lookup = << >>
    /\ self_demo_lookup = << >>
    /\ written = << >>
    /\ bids_root_made = FALSE
    /\ finalization = << >>

HandlersIdle ==
    /\ h_call = ""
    /\ h_args = << >>
    /\ h_ret = << >>

DriversIdle ==
    /\ drv = ""
    /\ drv_pc = "idle"
    /\ drv_source = "None"
    /\ drv_listing = {}
    /\ drv_files = << >>
    /\ drv_i = 0
    /\ success_count = 0
    /\ fail_count = 0
    /\ copied = << >>
    /\ reported = << >>
    /\ output_made = FALSE

\* one of the two tables is given, the other file is missing
LoaderInit ==
    /\ ParserIdle
    /\ NirsIdle
    /\ HandlersIdle
    /\ DriversIdle
    /\ \/ dyad_csv \in DyadCsvs /\ demo_csv = NoCsv
       \/ dyad_csv = NoCsv /\ demo_csv \in DemoCsvs
    /\ dyad_ret = NotCalled
    /\ demo_pc = "ready"
    /\ demo_i = 0
    /\ lookup = << >>
    /\ demo_ret = NotReturned

Call_load_dyad_mapping ==
    /\ ~dyad_ret.called
    /\ dyad_ret' = [called |-> TRUE,
                    raised |-> load_dyad_mapping(dyad_csv).raised,
                    value |-> load_dyad_mapping(dyad_csv).value]
    /\ UNCHANGED <<dyad_csv, parser_vars, demo_vars, nirs_vars, handler_vars, drv_vars>>

\* "if not csv_path.exists(): return {}", then pd.read_csv in the try
Demo_open ==
    /\ demo_pc = "ready"
    /\ IF demo_csv.status = "missing"
       THEN demo_pc' = "returned" /\ demo_ret' = [raised |-> FALSE, value |-> << >>]
       ELSE IF demo_csv.status = "unreadable"
       THEN /\ demo_pc' = "returned"
            /\ demo_ret' = [raised |-> ~ExceptException("ParserError"),
                            value |-> << >>]
       ELSE demo_pc' = "loop" /\ demo_ret' = demo_ret
    /\ UNCHANGED <<demo_csv, demo_i, lookup, parser_vars, dyad_vars, nirs_vars, handler_vars, drv_vars>>

\* one iteration of the loop; an exception ends the function in its except
Demo_row ==
    /\ demo_pc = "loop"
    /\ demo_i < Len(demo_csv.rows)
    /\ LET r == demo_row_try(demo_csv, lookup, demo_csv.rows[demo_i + 1])
       IN  IF r.exc = ""
           THEN /\ lookup' = r.value
                /\ demo_i' = demo_i + 1
                /\ UNCHANGED <<demo_pc, demo_ret>>
           ELSE /\ demo_pc' = "returned"
                /\ demo_ret' = [raised |-> ~ExceptException(r.exc),
                                value |-> << >>]
                /\ UNCHANGED <<lookup, demo_i>>
    /\ UNCHANGED <<demo_csv, parser_vars, dyad_vars, nirs_vars, handler_vars, drv_vars>>

\* "return lookup"
Demo_return ==
    /\ demo_pc = "loop"
    /\ demo_i = Len(demo_csv.rows)
    /\ demo_pc' = "returned"
    /\ demo_ret' = [raised |-> FALSE, value |-> lookup]
    /\ UNCHANGED <<demo_csv, demo_i, lookup, parser_vars, dyad_vars, nirs_vars, handler_vars, drv_vars>>

LoaderNext ==
    \/ Call_load_dyad_mapping
    \/ Demo_open
    \/ Demo_row
    \/ Demo_return

(***************************************************************************)
(* The parser as a state machine: one name, one call.                      *)
(***************************************************************************)
ParserInit ==
    /\ filename \in FileNames
    /\ dyad_lookup \in ParserDyadMaps
    /\ call = ""
    /\ ret = NoResult
    /\ LoadersIdle
    /\ NirsIdle
    /\ HandlersIdle
    /\ DriversIdle

Call_parse_subject ==
    /\ call = ""
    /\ call' = "parse_subject"
    /\ ret' = [NoResult EXCEPT !.none = (parse_subject(filename) = None),
                               !.sub = parse_subject(filename)]
    /\ UNCHANGED <<filename, dyad_lookup, dyad_vars, demo_vars, nirs_vars, handler_vars, drv_vars>>

Call_parse_session ==
    /\ call = ""
    /\ call' = "parse_session"
    /\ ret' = [NoResult EXCEPT !.none = (parse_session(filename) = None),
                               !.ses = parse_session(filename)]
    /\ UNCHANGED <<filename, dyad_lookup, dyad_vars, demo_vars, nirs_vars, handler_vars, drv_vars>>

Call_parse_run ==
    /\ call = ""
    /\ call' = "parse_run"
    /\ ret' = [NoResult EXCEPT !.none = FALSE, !.run = parse_run(filename)]
    /\ UNCHANGED <<filename, dyad_lookup, dyad_vars, demo_vars, nirs_vars, handler_vars, drv_vars>>

Call_parse_common_components ==
    /\ call = ""
    /\ call' = "parse_common_components"
    /\ ret' = parse_common_components(filename)
    /\ UNCHANGED <<filename, dyad_lookup, dyad_vars, demo_vars, nirs_vars, handler_vars, drv_vars>>

Call_parse_artwork_filename ==
    /\ call = ""
    /\ call' = "parse_artwork_filename"
    /\ ret' = parse_artwork_filename(dyad_lookup, filename)
    /\ UNCHANGED <<filename, dyad_lookup, dyad_vars, demo_vars, nirs_vars, handler_vars, drv_vars>>

Call_parse_coordinates_folder ==
    /\ call = ""
    /\ call' = "parse_coordinates_folder"
    /\ ret' = parse_coordinates_folder(dyad_lookup, filename)
    /\ UNCHANGED <<filename, dyad_lookup, dyad_vars, demo_vars, nirs_vars, handler_vars, drv_vars>>

ParserNext ==
    \/ Call_parse_subject
    \/ Call_parse_session
    \/ Call_parse_run
    \/ Call_parse_common_components
    \/ Call_parse_artwork_filename
    \/ Call_parse_coordinates_folder

(***************************************************************************)
(* NirsConverter: the recordings run.                                      *)
(***************************************************************************)
\* the characters of the names below in the order of their code points
CodePointOrder ==
    << "-", "." >> \o DigitChars \o UpperAlpha \o << "_" >> \o LowerAlpha

CodePointRank(c) == CHOOSE n \in 1..Len(CodePointOrder) : CodePointOrder[n] = c

\* a < b on str
RECURSIVE str_lt(_, _)
str_lt(a, b) ==
    IF b = << >> THEN FALSE
    ELSE IF a = << >> THEN TRUE
    ELSE IF a[1] = b[1] THEN str_lt(Tail(a), Tail(b))
    ELSE CodePointRank(a[1]) < CodePointRank(b[1])

\* sorted(list(...)) of a set of names
RECURSIVE sorted(_)
sorted(S) ==
    IF S = {} THEN << >>
    ELSE LET least == CHOOSE x \in S : \A y \in S : y = x \/ str_lt(x, y)
         IN  << least >> \o sorted(S \ {least})

\* str.endswith
endswith(s, suffix) ==
    /\ Len(s) >= Len(suffix)
    /\ SubSeq(s, Len(s) - Len(suffix) + 1, Len(s)) = suffix

\* self.source_dir.glob("*.snirf")
glob_snirf(names) == { n \in names : endswith(n, << ".", "s", "n", "i", "r", "f" >>) }

\* utils.parse_filename: "return _parser.parse_all(filename)".  The class
\* FilenameParser defines no parse_all (its methods are _get_dyad_for_sub,
\* parse_subject, parse_session, parse_run, parse_common_components,
\* parse_artwork_filename and parse_coordinates_folder), so the attribute
\* lookup raises AttributeError whatever the name is.
parse_filename(fname) == Raised("AttributeError")

\* NirsConverter._convert_single_file: the exception it lets out ("" for
\* none), whether it returned True, and the identity handed to BIDSPath and
\* write_raw_bids.  parse_filename is called before the try; reading and
\* writing the recording are taken to succeed.
_convert_single_file(file_name, dl, dm) ==
    LET parsed == parse_filename(file_name)
    IN  IF parsed.exc # ""
        THEN [exc |-> parsed.exc, ok |-> FALSE, out |-> None]
        ELSE LET sub_id == parsed.value[1]
                 ses_id == parsed.value[2]
                 run_id == parsed.value[3]
             IN  IF Falsy(sub_id) \/ Falsy(ses_id)
                 THEN [exc |-> "", ok |-> FALSE, out |-> None]
                 ELSE LET dyad_num == dict_get(dl, str(int(sub_id)))
                          acq_label == IF Falsy(dyad_num) THEN None
                                       ELSE << "d", "y", "a", "d" >> \o dyad_num
                          lookup_key == str(int(sub_id)) \o << "_" >> \o ses_id
                      IN  [exc |-> "", ok |-> TRUE,
                           out |-> [file |-> file_name,
                                    subject |-> sub_id,
                                    session |-> ses_id,
                                    run |-> run_id,
                                    acquisition |-> acq_label,
                                    sex |-> IF lookup_key \in DOMAIN dm
                                            THEN dm[lookup_key].sex
                                            ELSE None]]

\* the names a source directory may hold
NirsNames ==
    { << "s", "u", "b", "-", "7", "_", "s", "e", "s", "s", "i", "o", "n", "-", "1", ".", "s", "n", "i", "r", "f" >>,
      << "s", "u", "b", "-", "0", "1", "_", "s", "e", "s", "s", "i", "o", "n", "-", "b", "_", "2", ".", "s", "n", "i", "r", "f" >>,
      << "s", "u", "b", "-", "1", "0", "2", "_", "s", "e", "s", "-", "3", "_", "r", "u", "n", "-", "5", ".", "s", "n", "i", "r", "f" >>,
      << "n", "o", "t", "e", "s", ".", "s", "n", "i", "r", "f" >>,
      << "s", "u", "b", "-", "7", "_", "s", "e", "s", "s", "i", "o", "n", "-", "1", ".", "t", "x", "t" >> }

\* the dyad-list files and the demographics files of a run
NirsDyadCsvs ==
    { NoCsv,
      [status |-> "no_columns", rows |-> << >>],
      [status |-> "ok",
       rows |-> << [dyadID |-> << "1", "0", "0", "1" >>, pID1 |-> << "0", "7" >>, pID2 |-> << "1", "0", "2" >>] >>] }

NirsDemoCsvs ==
    { NoCsv,
      [status |-> "ok", rows |-> << DemoRowR(<< "0", "7" >>, << "1" >>, << "F" >>, << "3", "4" >>) >>] }

NirsInit ==
    /\ ParserIdle
    /\ HandlersIdle
    /\ DriversIdle
    /\ dyad_csv \in NirsDyadCsvs
    /\ demo_csv \in NirsDemoCsvs
    /\ dyad_ret = NotCalled
    /\ demo_pc = "ready"
    /\ demo_i = 0
    /\ lookup = << >>
    /\ demo_ret = NotReturned
    /\ nirs_pc = "start"
    /\ source_dir \in {"None", "missing", "exists"}
    /\ listing \in SUBSET NirsNames
    /\ snirf_files = << >>
    /\ nirs_i = 0
    /\ self_dyad_lookup = << >>
    /\ self_demo_lookup = << >>
    /\ written = << >>
    /\ bids_root_made = FALSE
    /\ finalization = << >>

\* run: "if not self._validate_paths(): return"
Nirs_validate_paths ==
    /\ nirs_pc = "start"
    /\ nirs_pc' = IF source_dir = "exists" THEN "validated" ELSE "returned"
    /\ bids_root_made' = (source_dir = "exists")
    /\ UNCHANGED <<source_dir, listing, snirf_files, nirs_i, self_dyad_lookup,
                   self_demo_lookup, written, finalization, parser_vars, dyad_vars, demo_vars,
                   handler_vars, drv_vars>>

\* run: self._load_metadata()
Nirs_load_metadata ==
    /\ nirs_pc = "validated"
    /\ LET d == load_dyad_mapping(dyad_csv)
           m == load_demographics(demo_csv)
       IN  IF d.raised \/ m.raised
           THEN /\ nirs_pc' = "raised"
                /\ UNCHANGED <<self_dyad_lookup, self_demo_lookup>>
           ELSE /\ nirs_pc' = "loaded"
                /\ self_dyad_lookup' = d.value
                /\ self_demo_lookup' = m.value
    /\ UNCHANGED <<source_dir, listing, snirf_files, nirs_i, written,
                   bids_root_made, finalization,
                   parser_vars, dyad_vars, demo_vars,
                   handler_vars, drv_vars>>

\* run: snirf_files = sorted(list(self.source_dir.glob("*.snirf"))), and the
\* return when there is none
Nirs_gather ==
    /\ nirs_pc = "loaded"
    /\ snirf_files' = sorted(glob_snirf(listing))
    /\ nirs_pc' = IF glob_snirf(listing) = {} THEN "returned" ELSE "loop"
    /\ UNCHANGED <<source_dir, listing, nirs_i, self_dyad_lookup,
                   self_demo_lookup, written, bids_root_made, finalization,
                   parser_vars, dyad_vars, demo_vars,
                   handler_vars, drv_vars>>

\* run: the finalization after the loop, in the order of its calls
FinalizationSteps ==
    << "generate_description", "patch_nirs_coords",
       "_post_process_participants_tsv" >>

\* run: one iteration of the loop over snirf_files, which has no try around
\* it, and after the last file the finalization (generate_description,
\* patch_nirs_coords, _post_process_participants_tsv)
Nirs_convert_single_file ==
    /\ nirs_pc = "loop"
    /\ nirs_i < Len(snirf_files)
    /\ LET r == _convert_single_file(snirf_files[nirs_i + 1],
                                     self_dyad_lookup, self_demo_lookup)
       IN  IF r.exc # ""
           THEN /\ nirs_pc' = "raised"
                /\ UNCHANGED <<nirs_i, written, finalization>>
           ELSE /\ written' = IF r.ok THEN Append(written, r.out) ELSE written
                /\ nirs_i' = nirs_i + 1
                /\ IF nirs_i + 1 = Len(snirf_files)
                   THEN /\ nirs_pc' = "complete"
                        /\ finalization' = finalization \o FinalizationSteps
                   ELSE /\ nirs_pc' = "loop"
                        /\ UNCHANGED finalization
    /\ UNCHANGED <<source_dir, listing, snirf_files, self_dyad_lookup,
                   self_demo_lookup, bids_root_made, parser_vars, dyad_vars, demo_vars,
                   handler_vars, drv_vars>>

NirsNext ==
    \/ Nirs_validate_paths
    \/ Nirs_load_metadata
    \/ Nirs_gather
    \/ Nirs_convert_single_file

(***************************************************************************)
(* ArtworksConverter.                                                      *)
(***************************************************************************)
\* Path.suffix: the name from its last dot on, when that dot is neither the
\* first nor the last character
suffix(name) ==
    LET dots == { k \in 1..Len(name) : name[k] = "." }
    IN  IF dots = {} THEN << >>
        ELSE LET k == CHOOSE d \in dots : \A d2 \in dots : d2 <= d
             IN  IF 1 < k /\ k < Len(name) THEN SubSeq(name, k, Len(name))
                 ELSE << >>

\* utils.parse_artwork_filename: "return _parser.parse_artwork_string(
\* filename)".  FilenameParser defines no parse_artwork_string, so the call
\* raises AttributeError.
utils_parse_artwork_filename(fname) == Raised("AttributeError")

\* ArtworksConverter._validate_metadata: the ValueError names the required
\* keys, the missing keys and the info
Artworks_validate_metadata(info, required_keys) ==
    LET missing == SelectSeq(required_keys, LAMBDA key : Falsy(info[key]))
    IN  IF missing # << >>
        THEN [exc |-> "ValueError",
              message |-> [required |-> required_keys, missing |-> missing,
                           info |-> info],
              value |-> None]
        ELSE [exc |-> "", message |-> None, value |-> None]

\* a mutant of _prepare_together: the suffix is kept as it is written
_prepare_together_KeepCase(info, file_suffix) ==
    LET v == Artworks_validate_metadata(info, << "dyad", "ses", "task_num" >>)
    IN  IF v.exc # "" THEN v
        ELSE [v EXCEPT !.value =
                 [dest_folder |-> "together",
                  new_name |-> << "s", "e", "s", "-" >> \o info.ses \o << "_", "a", "c", "q", "-", "d", "y", "a", "d" >> \o info.dyad
                               \o << "_", "t", "a", "s", "k", "-", "c", "o", "d", "r", "a", "w", "i", "n", "g" >> \o info.task_num
                               \o << "_", "a", "r", "t", "w", "o", "r", "k" >> \o file_suffix]]

_prepare_together(info, file_suffix) ==
    LET v == Artworks_validate_metadata(info, << "dyad", "ses", "task_num" >>)
    IN  IF v.exc # "" THEN v
        ELSE [v EXCEPT !.value =
                 [dest_folder |-> "together",
                  new_name |-> << "s", "e", "s", "-" >> \o info.ses \o << "_", "a", "c", "q", "-", "d", "y", "a", "d" >> \o info.dyad
                               \o << "_", "t", "a", "s", "k", "-", "c", "o", "d", "r", "a", "w", "i", "n", "g" >> \o info.task_num
                               \o << "_", "a", "r", "t", "w", "o", "r", "k" >> \o LowerStr(file_suffix)]]

\* a mutant of _prepare_solo: the subject is left out of the name
_prepare_solo_NoSubject(info, file_suffix) ==
    LET v == Artworks_validate_metadata(info, << "dyad", "ses", "sub" >>)
    IN  IF v.exc # "" THEN v
        ELSE [v EXCEPT !.value =
                 [dest_folder |-> "alone",
                  new_name |-> << "s", "e", "s", "-" >> \o info.ses
                               \o << "_", "a", "c", "q", "-", "d", "y", "a", "d" >> \o info.dyad
                               \o << "_", "t", "a", "s", "k", "-", "d", "r", "a", "w", "i", "n", "g", "a", "l", "o", "n", "e", "_", "a", "r", "t", "w", "o", "r", "k" >>
                               \o LowerStr(file_suffix)]]

_prepare_solo(info, file_suffix) ==
    LET v == Artworks_validate_metadata(info, << "dyad", "ses", "sub" >>)
    IN  IF v.exc # "" THEN v
        ELSE [v EXCEPT !.value =
                 [dest_folder |-> "alone",
                  new_name |-> << "s", "u", "b", "-" >> \o info.sub \o << "_", "s", "e", "s", "-" >> \o info.ses
                               \o << "_", "a", "c", "q", "-", "d", "y", "a", "d" >> \o info.dyad
                               \o << "_", "t", "a", "s", "k", "-", "d", "r", "a", "w", "i", "n", "g", "a", "l", "o", "n", "e", "_", "a", "r", "t", "w", "o", "r", "k" >>
                               \o LowerStr(file_suffix)]]

\* an error log line that names no key
Logged(text) == [missing |-> << >>, text |-> text]

\* what processing one candidate gives: the exception it lets out ("" for
\* none), the value it returned, the copies perform_copy made and the error
\* it logged
Outcome(exc, ok, copies, error) ==
    [exc |-> exc, ok |-> ok, copies |-> copies, error |-> error]

\* ArtworksConverter._process_single_file from "if not info" on, for the
\* info the parse call returned; copy_raises: perform_copy raises OSError
Artworks_process_parsed(info, file_name, copy_raises) ==
    IF info.none THEN Outcome("", FALSE, << >>, None)
    ELSE LET p == IF info.task = Together
                  THEN _prepare_together(info, suffix(file_name))
                  ELSE _prepare_solo(info, suffix(file_name))
         IN  IF info.task # Together /\ info.task # Solo
             THEN Outcome("", FALSE, << >>, None)
             ELSE IF p.exc # "" THEN Outcome("", FALSE, << >>, p.message)
             ELSE IF copy_raises THEN Outcome("", FALSE, << >>, Logged("OSError"))
             ELSE Outcome("", TRUE,
                          << [source |-> file_name,
                              target_dir |-> p.value.dest_folder,
                              file_name |-> p.value.new_name] >>, None)

\* ArtworksConverter._process_single_file: the parse call is before the try
Artworks_process_single_file(file_name, copy_raises) ==
    LET parsed == utils_parse_artwork_filename(file_name)
    IN  IF parsed.exc # "" THEN Outcome(parsed.exc, FALSE, << >>, None)
        ELSE Artworks_process_parsed(parsed.value, file_name, copy_raises)

\* the infos a handler may be given: each field is absent, empty or set
Infos ==
    { [NoResult EXCEPT !.none = FALSE, !.sub = su, !.ses = se, !.dyad = dy,
                       !.task = ta, !.task_num = tn] :
        su \in { None, << >>, << "1", "0", "2" >> },
        se \in { None, << >>, << "0", "1" >> },
        dy \in { None, << >>, << "2", "0", "0", "2" >> },
        ta \in { Together, Solo },
        tn \in { None, << >>, << "2" >>, << "4" >>, << "9" >> } }

Suffixes == { << >>, << ".", "t", "i", "f" >>, << ".", "T", "I", "F" >>, << ".", "j", "p", "g" >> }

(***************************************************************************)
(* CoordinatesConverter.                                                   *)
(***************************************************************************)
\* utils.parse_coordinates_folder: utils defines no such function, so the
\* attribute lookup on the module raises AttributeError
utils_parse_coordinates_folder(folder_name) == Raised("AttributeError")

\* a mutant of Base_validate_metadata: an empty value is not missing
Base_validate_metadata_NoneOnly(info, keys, context) ==
    LET missing == SelectSeq(keys, LAMBDA k : info[k] = None)
    IN  IF missing # << >>
        THEN [exc |-> "ValueError",
              message |-> [missing |-> missing, context |-> context],
              value |-> None]
        ELSE [exc |-> "", message |-> None, value |-> None]

\* BaseConverter._validate_metadata: the ValueError names the missing keys
\* and the context
Base_validate_metadata(info, keys, context) ==
    LET missing == SelectSeq(keys, LAMBDA k : Falsy(info[k]))
    IN  IF missing # << >>
        THEN [exc |-> "ValueError",
              message |-> [missing |-> missing, context |-> context],
              value |-> None]
        ELSE [exc |-> "", message |-> None, value |-> None]

\* a mutant of files_map: the targets of the two distance files are swapped
files_map_Swapped(folder_name) ==
    << [src_name |-> folder_name \o << ".", "c", "s", "v" >>,
        target_suffix |-> << "o", "p", "t", "o", "d", "e", "C", "o", "o", "r", "d", "i", "n", "a", "t", "e", "s", ".", "c", "s", "v" >>],
       [src_name |-> folder_name \o << "_", "d", "i", "s", "t", "a", "n", "c", "e", "s", ".", "c", "s", "v" >>,
        target_suffix |-> << "d", "i", "s", "t", "a", "n", "c", "e", "s", "T", "o", "R", "o", "i", ".", "c", "s", "v" >>],
       [src_name |-> folder_name \o << "_", "o", "p", "t", "o", "d", "e", "_", "d", "i", "s", "t", ".", "c", "s", "v" >>,
        target_suffix |-> << "c", "h", "a", "n", "n", "e", "l", "L", "e", "n", "g", "t", "h", "s", ".", "c", "s", "v" >>] >>

\* files_map, in the order its items are visited
files_map(folder_name) ==
    << [src_name |-> folder_name \o << ".", "c", "s", "v" >>,
        target_suffix |-> << "o", "p", "t", "o", "d", "e", "C", "o", "o", "r", "d", "i", "n", "a", "t", "e", "s", ".", "c", "s", "v" >>],
       [src_name |-> folder_name \o << "_", "d", "i", "s", "t", "a", "n", "c", "e", "s", ".", "c", "s", "v" >>,
        target_suffix |-> << "c", "h", "a", "n", "n", "e", "l", "L", "e", "n", "g", "t", "h", "s", ".", "c", "s", "v" >>],
       [src_name |-> folder_name \o << "_", "o", "p", "t", "o", "d", "e", "_", "d", "i", "s", "t", ".", "c", "s", "v" >>,
        target_suffix |-> << "d", "i", "s", "t", "a", "n", "c", "e", "s", "T", "o", "R", "o", "i", ".", "c", "s", "v" >>] >>

\* a mutant of copy_loop: a known file that is missing or whose copy fails
\* makes the folder a failure
RECURSIVE copy_loop_AllRequired(_, _, _, _, _, _)
copy_loop_AllRequired(entries, filename_prefix, dest_dir, on_disk, copy_fails, acc) ==
    IF entries = << >> THEN acc
    ELSE LET e == Head(entries)
             step ==
                 IF e.src_name \in on_disk /\ e.src_name \notin copy_fails
                 THEN [success_any |-> acc.success_any /\ TRUE,
                       copies |-> Append(acc.copies,
                                    [source |-> e.src_name,
                                     target_dir |-> dest_dir,
                                     file_name |-> filename_prefix \o e.target_suffix])]
                 ELSE [acc EXCEPT !.success_any = FALSE]
         IN  copy_loop_AllRequired(Tail(entries), filename_prefix, dest_dir,
                                   on_disk, copy_fails, step)

\* "for src_name, target_suffix in files_map.items()": a file that exists is
\* copied, and success_any is set when its copy does not raise
RECURSIVE copy_loop(_, _, _, _, _, _)
copy_loop(entries, filename_prefix, dest_dir, on_disk, copy_fails, acc) ==
    IF entries = << >> THEN acc
    ELSE LET e == Head(entries)
             step ==
                 IF e.src_name \in on_disk /\ e.src_name \notin copy_fails
                 THEN [success_any |-> TRUE,
                       copies |-> Append(acc.copies,
                                    [source |-> e.src_name,
                                     target_dir |-> dest_dir,
                                     file_name |-> filename_prefix \o e.target_suffix])]
                 ELSE acc
         IN  copy_loop(Tail(entries), filename_prefix, dest_dir,
                       on_disk, copy_fails, step)

\* CoordinatesConverter._process_single_file from "if not info" on, for the
\* info the parse call returned; on_disk: the files of the folder;
\* copy_fails: those whose perform_copy raises
Coordinates_process_parsed(info, folder_name, on_disk, copy_fails) ==
    IF info.none THEN Outcome("", FALSE, << >>, Logged("Invalid Folder Name Pattern"))
    ELSE LET v == Base_validate_metadata(info, << "sub", "ses", "dyad" >>,
                                         "Coordinates")
         IN  IF v.exc # "" THEN Outcome("", FALSE, << >>, v.message)
             ELSE LET filename_prefix ==
                          << "s", "u", "b", "-" >> \o info.sub \o << "_", "s", "e", "s", "-" >> \o info.ses
                              \o << "_", "a", "c", "q", "-", "d", "y", "a", "d" >> \o info.dyad \o << "_" >>
                      dest_dir == << << "s", "u", "b", "-" >> \o info.sub, << "s", "e", "s", "-" >> \o info.ses >>
                      r == copy_loop(files_map(folder_name), filename_prefix,
                                     dest_dir, on_disk, copy_fails,
                                     [success_any |-> FALSE, copies |-> << >>])
                  IN  Outcome("", r.success_any, r.copies, None)

\* CoordinatesConverter._process_single_file: the parse call is before the
\* try
Coordinates_process_single_file(folder_name, on_disk, copy_fails) ==
    LET parsed == utils_parse_coordinates_folder(folder_name)
    IN  IF parsed.exc # "" THEN Outcome(parsed.exc, FALSE, << >>, None)
        ELSE Coordinates_process_parsed(parsed.value, folder_name, on_disk,
                                        copy_fails)

\* the folders of a coordinates source, and the files a folder may hold
FolderNames ==
    { << "s", "u", "b", "-", "1", "0", "2", "_", "s", "e", "s", "s", "i", "o", "n", "-", "1" >>, << "s", "u", "b", "-", "0", "0", "7", "_", "s", "e", "s", "s", "i", "o", "n", "-", "0", "1" >>, << "S", "U", "B", "-", "7", "_", "S", "E", "S", "S", "I", "O", "N", "-", "3" >>,
      << "s", "u", "b", "-", "5", "_", "s", "e", "s", "s", "i", "o", "n", "-", "2" >>, << "s", "u", "b", "-", "1", "0", "2", "_", "s", "e", "s", "s", "i", "o", "n", "-", "1", "_", "o", "l", "d" >> }

KnownFiles(folder_name) ==
    { folder_name \o << ".", "c", "s", "v" >>, folder_name \o << "_", "d", "i", "s", "t", "a", "n", "c", "e", "s", ".", "c", "s", "v" >>,
      folder_name \o << "_", "o", "p", "t", "o", "d", "e", "_", "d", "i", "s", "t", ".", "c", "s", "v" >> }

FolderFiles(folder_name) ==
    KnownFiles(folder_name) \cup { << "o", "p", "t", "o", ".", "m", "a", "t" >>, folder_name \o << ".", "t", "x", "t" >> }

(***************************************************************************)
(* MoCapConverter.                                                         *)
(***************************************************************************)
\* utils.parse_mocap_file: utils defines no such function, so the attribute
\* lookup on the module raises AttributeError
utils_parse_mocap_file(fname) == Raised("AttributeError")

\* a mutant of task_map: the names are shifted by one
task_map_Shifted ==
    (<< "1" >> :> << "c", "o", "d", "r", "a", "w", "i", "n", "g", "1" >>) @@
    (<< "2" >> :> << "c", "o", "d", "r", "a", "w", "i", "n", "g", "2" >>) @@
    (<< "3" >> :> << "c", "o", "l", "l", "a", "b", "o", "r", "a", "t", "i", "v", "e", "t", "a", "s", "k" >>) @@
    (<< "4" >> :> << "d", "r", "a", "w", "i", "n", "g", "a", "l", "o", "n", "e" >>)

\* self.task_map
task_map ==
    (<< "1" >> :> << "d", "r", "a", "w", "i", "n", "g", "a", "l", "o", "n", "e" >>) @@
    (<< "2" >> :> << "c", "o", "d", "r", "a", "w", "i", "n", "g", "1" >>) @@
    (<< "3" >> :> << "c", "o", "d", "r", "a", "w", "i", "n", "g", "2" >>) @@
    (<< "4" >> :> << "c", "o", "l", "l", "a", "b", "o", "r", "a", "t", "i", "v", "e", "t", "a", "s", "k" >>)

\* MoCapConverter._process_single_file from "if not info" on, for the info
\* the parse call returned; copy_raises: perform_copy raises
MoCap_process_parsed(info, file_name, copy_raises) ==
    IF info.none THEN Outcome("", FALSE, << >>, Logged("Invalid Folder Name Pattern"))
    ELSE LET v == Base_validate_metadata(info, << "dyad", "ses", "task_num" >>,
                                         "MoCap")
             task_name == dict_get(task_map, info.task_num)
         IN  IF v.exc # "" THEN Outcome("", FALSE, << >>, v.message)
             ELSE IF Falsy(task_name)
             THEN Outcome("", FALSE, << >>, Logged("Unknown Task Number"))
             ELSE IF copy_raises THEN Outcome("", FALSE, << >>, Logged("OSError"))
             ELSE Outcome("", TRUE,
                      << [source |-> file_name,
                          target_dir |-> << << "a", "c", "q", "-", "d", "y", "a", "d" >> \o info.dyad,
                                            << "s", "e", "s", "-" >> \o info.ses >>,
                          file_name |-> << "s", "u", "b", "-", "d", "y", "a", "d" >> \o info.dyad \o << "_", "s", "e", "s", "-" >>
                                          \o info.ses \o << "_", "a", "c", "q", "-", "d", "y", "a", "d" >>
                                          \o info.dyad \o << "_", "t", "a", "s", "k", "-" >> \o task_name
                                          \o << "_", "m", "o", "c", "a", "p", ".", "c", "s", "v" >>] >>, None)

\* MoCapConverter._process_single_file: the parse call is before the try
MoCap_process_single_file(file_name, copy_raises) ==
    LET parsed == utils_parse_mocap_file(file_name)
    IN  IF parsed.exc # "" THEN Outcome(parsed.exc, FALSE, << >>, None)
        ELSE MoCap_process_parsed(parsed.value, file_name, copy_raises)

\* the required keys of the four validations
RequiredKeyLists ==
    { << "dyad", "ses", "task_num" >>, << "dyad", "ses", "sub" >>,
      << "sub", "ses", "dyad" >> }

(***************************************************************************)
(* NirsConverter._post_process_participants_tsv.                           *)
(***************************************************************************)
\* str.replace('sub-', ''): every occurrence is removed, from the left
RECURSIVE replace_sub(_)
replace_sub(s) ==
    IF s = << >> THEN << >>
    ELSE IF Len(s) >= 4 /\ SubSeq(s, 1, 4) = << "s", "u", "b", "-" >>
    THEN replace_sub(SubSeq(s, 5, Len(s)))
    ELSE << Head(s) >> \o replace_sub(Tail(s))

\* key.split('_')[0]: the part of the key before its first "_"
RECURSIVE split_first(_)
split_first(key) ==
    IF key = << >> \/ Head(key) = "_" THEN << >>
    ELSE << Head(key) >> \o split_first(Tail(key))

\* the inner loop over self.demo_lookup.items(), in insertion order: the age
\* of the first key whose subject part equals sub_id (every meta built by
\* load_demographics has the key 'age'), None when no key matches
RECURSIVE first_match(_, _)
first_match(items, sub_id) ==
    IF items = << >> THEN None
    ELSE IF split_first(Head(items).key) = sub_id
    THEN Head(items).meta.age
    ELSE first_match(Tail(items), sub_id)

\* the table participants.tsv does not exist
NoTsv == [exists |-> FALSE, rows |-> << >>]

\* _post_process_participants_tsv: the table it leaves on disk (rewritten
\* says whether to_csv was called)
_post_process_participants_tsv(tsv, items) ==
    IF ~tsv.exists THEN [tsv |-> tsv, rewritten |-> FALSE]
    ELSE [tsv |-> [exists |-> TRUE,
                   rows |-> [i \in 1..Len(tsv.rows) |->
                       LET sub_id == replace_sub(tsv.rows[i].participant_id)
                           age == first_match(items, sub_id)
                       IN  IF age = None THEN tsv.rows[i]
                           ELSE [tsv.rows[i] EXCEPT !.age = age]]],
          rewritten |-> TRUE]

\* the rows of a participant table, as write_raw_bids names the subjects, and
\* the items of a demographics map, as load_demographics builds its keys
MaxTsvRows == 2
MaxDemoItems == 2

TsvRows ==
    [participant_id : { << "s", "u", "b", "-", "0", "7" >>, << "s", "u", "b", "-", "1", "0", "1" >>, << "s", "u", "b", "-", "1", "2" >> },
     age : { << "n", "/", "a" >>, << "3", "0" >> }]

DemoItems ==
    [key : { << "7", "_", "0", "1" >>, << "1", "0", "1", "_", "0", "1" >>, << "1", "0", "1", "_", "0", "2" >> },
     meta : [age : { << "3", "4" >>, << "4", "1" >> }, sex : { 1 }]]

\* the sequences over S of length up to n
SeqsOver(S, n) == UNION { [1..k -> S] : k \in 0..n }

\* the keys of the items are distinct, as the keys of a dict are
DistinctKeys(items) ==
    \A i, j \in 1..Len(items) : i # j => items[i].key # items[j].key

(***************************************************************************)
(* utils.patch_nirs_coords.                                                *)
(***************************************************************************)
\* a directory tree: a function from the paths of its JSON files to their
\* contents, each a function from field names to values
\* glob(bids_root / "**" / "*_coordsystem.json", recursive=True)
glob_coordsystem(tree) ==
    { p \in DOMAIN tree : endswith(p, << "_", "c", "o", "o", "r", "d", "s", "y", "s", "t", "e", "m", ".", "j", "s", "o", "n" >>) }

\* a mutant of needs_patch: the field is stamped whatever the file holds
needs_patch_Always(data) == TRUE

\* "if 'NIRSCoordinateProcessingDescription' not in data"
needs_patch(data) == "NIRSCoordinateProcessingDescription" \notin DOMAIN data

\* the body of the if: the field is set in data, and data is dumped
patched(data) ==
    [k \in DOMAIN data \cup { "NIRSCoordinateProcessingDescription" } |->
        IF k = "NIRSCoordinateProcessingDescription" THEN "n/a" ELSE data[k]]

\* patch_nirs_coords: the tree it leaves, and the files it opened for
\* writing
patch_nirs_coords(tree) ==
    LET files == glob_coordsystem(tree)
        hit == { p \in files : needs_patch(tree[p]) }
    IN  [tree |-> [p \in DOMAIN tree |->
                      IF p \in hit THEN patched(tree[p]) ELSE tree[p]],
         written |-> hit]

\* the JSON files a dataset may hold and what they may contain
JsonPaths ==
    { << "s", "u", "b", "-", "0", "7", "/", "s", "e", "s", "-", "0", "1", "/", "n", "i", "r", "s", "/", "s", "u", "b", "-", "0", "7", "_", "s", "e", "s", "-", "0", "1", "_", "c", "o", "o", "r", "d", "s", "y", "s", "t", "e", "m", ".", "j", "s", "o", "n" >>,
      << "s", "u", "b", "-", "1", "0", "1", "/", "s", "e", "s", "-", "0", "1", "/", "n", "i", "r", "s", "/", "s", "u", "b", "-", "1", "0", "1", "_", "s", "e", "s", "-", "0", "1", "_", "c", "o", "o", "r", "d", "s", "y", "s", "t", "e", "m", ".", "j", "s", "o", "n" >>,
      << "s", "u", "b", "-", "0", "7", "/", "s", "e", "s", "-", "0", "1", "/", "n", "i", "r", "s", "/", "s", "u", "b", "-", "0", "7", "_", "s", "e", "s", "-", "0", "1", "_", "t", "a", "s", "k", "-", "d", "r", "a", "w", "i", "n", "g", "_", "n", "i", "r", "s", ".", "j", "s", "o", "n" >> }

JsonContents ==
    UNION { [D -> { "n/a", "Other" }] :
              D \in SUBSET { "NIRSCoordinateProcessingDescription",
                             "NIRSCoordinateSystem" } }

JsonTrees == UNION { [D -> JsonContents] : D \in SUBSET JsonPaths }

(***************************************************************************)
(* jobs.py: the job wrappers.                                              *)
(***************************************************************************)
Jobs == { "run_nirs_job", "run_artworks_job", "run_coordinates_job",
          "run_mocap_job" }

SourceKeys == { "NIRS", "Art", "Coord", "MoCap" }

\* the key each wrapper looks for in study_config.get("Sources", {})
tested_key(job) ==
    IF job = "run_nirs_job" THEN "NIRS"
    ELSE IF job = "run_artworks_job" THEN "Art"
    ELSE IF job = "run_coordinates_job" THEN "Coord"
    ELSE "Coord"

\* the input_key with which the wrapper's converter resolves its source
input_key(job) ==
    IF job = "run_nirs_job" THEN "NIRS"
    ELSE IF job = "run_artworks_job" THEN "Art"
    ELSE IF job = "run_coordinates_job" THEN "Coord"
    ELSE "MoCap"

\* a job wrapper called with a configuration whose Sources has the keys
\* sources: whether the converter was constructed and its run called, and
\* the source_dir its constructor resolved ("None" after the ValueError of
\* get_input_path, which BaseConverter and NirsConverter catch)
run_job(job, sources) ==
    IF tested_key(job) \in sources
    THEN [ran |-> TRUE,
          source_dir |-> IF input_key(job) \in sources THEN "path" ELSE "None"]
    ELSE [ran |-> FALSE, source_dir |-> "None"]

(***************************************************************************)
(* The handlers called on their own: one call, its arguments drawn from    *)
(* the sets above.                                                         *)
(***************************************************************************)
HandlerInit ==
    /\ ParserIdle
    /\ LoadersIdle
    /\ NirsIdle
    /\ DriversIdle
    /\ HandlersIdle

Call_prepare_together ==
    /\ h_call = ""
    /\ \E info \in Infos, file_suffix \in Suffixes :
          /\ h_call' = "_prepare_together"
          /\ h_args' = [info |-> info, file_suffix |-> file_suffix]
          /\ h_ret' = _prepare_together(info, file_suffix)
    /\ UNCHANGED <<parser_vars, dyad_vars, demo_vars, nirs_vars, drv_vars>>

Call_prepare_solo ==
    /\ h_call = ""
    /\ \E info \in Infos, file_suffix \in Suffixes :
          /\ h_call' = "_prepare_solo"
          /\ h_args' = [info |-> info, file_suffix |-> file_suffix]
          /\ h_ret' = _prepare_solo(info, file_suffix)
    /\ UNCHANGED <<parser_vars, dyad_vars, demo_vars, nirs_vars, drv_vars>>

\* an artwork file is processed with the info that
\* FilenameParser.parse_artwork_filename gives for its name
Call_Artworks_process_parsed ==
    /\ h_call = ""
    /\ \E file_name \in ArtNames, table \in ParserDyadMaps,
          copy_raises \in BOOLEAN :
          /\ h_call' = "Artworks_process_parsed"
          /\ h_args' = [file_name |-> file_name, table |-> table,
                        info |-> parse_artwork_filename(table, file_name),
                        copy_raises |-> copy_raises]
          /\ h_ret' = Artworks_process_parsed(
                          parse_artwork_filename(table, file_name),
                          file_name, copy_raises)
    /\ UNCHANGED <<parser_vars, dyad_vars, demo_vars, nirs_vars, drv_vars>>

\* a coordinates folder is processed with the info that
\* FilenameParser.parse_coordinates_folder gives for its name
Call_Coordinates_process_parsed ==
    /\ h_call = ""
    /\ \E folder_name \in FolderNames, table \in ParserDyadMaps :
       \E on_disk \in SUBSET FolderFiles(folder_name) :
       \E copy_fails \in SUBSET (on_disk \cap KnownFiles(folder_name)) :
          /\ h_call' = "Coordinates_process_parsed"
          /\ h_args' = [folder_name |-> folder_name, table |-> table,
                        info |-> parse_coordinates_folder(table, folder_name),
                        on_disk |-> on_disk, copy_fails |-> copy_fails]
          /\ h_ret' = Coordinates_process_parsed(
                          parse_coordinates_folder(table, folder_name),
                          folder_name, on_disk, copy_fails)
    /\ UNCHANGED <<parser_vars, dyad_vars, demo_vars, nirs_vars, drv_vars>>

\* a motion-capture file is processed with a parsed info
Call_MoCap_process_parsed ==
    /\ h_call = ""
    /\ \E info \in Infos \cup { NoResult }, copy_raises \in BOOLEAN :
          /\ h_call' = "MoCap_process_parsed"
          /\ h_args' = [file_name |-> << "t", "a", "k", "e", "1", ".", "c", "s", "v" >>, info |-> info,
                        copy_raises |-> copy_raises]
          /\ h_ret' = MoCap_process_parsed(info, << "t", "a", "k", "e", "1", ".", "c", "s", "v" >>, copy_raises)
    /\ UNCHANGED <<parser_vars, dyad_vars, demo_vars, nirs_vars, drv_vars>>

Call_Artworks_validate_metadata ==
    /\ h_call = ""
    /\ \E info \in Infos, required_keys \in RequiredKeyLists :
          /\ h_call' = "Artworks_validate_metadata"
          /\ h_args' = [info |-> info, keys |-> required_keys]
          /\ h_ret' = Artworks_validate_metadata(info, required_keys)
    /\ UNCHANGED <<parser_vars, dyad_vars, demo_vars, nirs_vars, drv_vars>>

Call_Base_validate_metadata ==
    /\ h_call = ""
    /\ \E info \in Infos, keys \in RequiredKeyLists :
          /\ h_call' = "Base_validate_metadata"
          /\ h_args' = [info |-> info, keys |-> keys]
          /\ h_ret' = Base_validate_metadata(info, keys, "Coordinates")
    /\ UNCHANGED <<parser_vars, dyad_vars, demo_vars, nirs_vars, drv_vars>>

Call_post_process_participants_tsv ==
    /\ h_call = ""
    /\ \E rows \in SeqsOver(TsvRows, MaxTsvRows),
          items \in { s \in SeqsOver(DemoItems, MaxDemoItems) : DistinctKeys(s) },
          exists \in BOOLEAN :
          /\ ~exists => rows = << >>
          /\ h_call' = "_post_process_participants_tsv"
          /\ h_args' = [tsv |-> [exists |-> exists, rows |-> rows],
                        items |-> items]
          /\ h_ret' = _post_process_participants_tsv(
                          [exists |-> exists, rows |-> rows], items)
    /\ UNCHANGED <<parser_vars, dyad_vars, demo_vars, nirs_vars, drv_vars>>

\* patch_nirs_coords called on a tree, and called again on the tree it left
Call_patch_nirs_coords ==
    /\ h_call = ""
    /\ \E tree \in JsonTrees :
          /\ h_call' = "patch_nirs_coords"
          /\ h_args' = [tree |-> tree]
          /\ h_ret' = [first |-> patch_nirs_coords(tree),
                       second |-> patch_nirs_coords(
                                      patch_nirs_coords(tree).tree)]
    /\ UNCHANGED <<parser_vars, dyad_vars, demo_vars, nirs_vars, drv_vars>>

\* two iterations of the loop of ArtworksConverter.run, each from "if not
\* info" on: two files of one source directory, in sorted order, with
\* copies that do not raise
Call_Artworks_process_two ==
    /\ h_call = ""
    /\ \E f1 \in ArtNames, f2 \in ArtNames, table \in ParserDyadMaps :
          /\ str_lt(f1, f2)
          /\ h_call' = "Artworks_process_two"
          /\ h_args' = [file_names |-> << f1, f2 >>, table |-> table]
          /\ h_ret' = [first |-> Artworks_process_parsed(
                                     parse_artwork_filename(table, f1), f1, FALSE),
                       second |-> Artworks_process_parsed(
                                      parse_artwork_filename(table, f2), f2, FALSE)]
    /\ UNCHANGED <<parser_vars, dyad_vars, demo_vars, nirs_vars, drv_vars>>

Call_run_job ==
    /\ h_call = ""
    /\ \E job \in Jobs, sources \in SUBSET SourceKeys :
          /\ h_call' = "run_job"
          /\ h_args' = [job |-> job, sources |-> sources]
          /\ h_ret' = run_job(job, sources)
    /\ UNCHANGED <<parser_vars, dyad_vars, demo_vars, nirs_vars, drv_vars>>

HandlerNext ==
    \/ Call_prepare_together
    \/ Call_prepare_solo
    \/ Call_Artworks_process_parsed
    \/ Call_Coordinates_process_parsed
    \/ Call_MoCap_process_parsed
    \/ Call_Artworks_validate_metadata
    \/ Call_Base_validate_metadata
    \/ Call_post_process_participants_tsv
    \/ Call_patch_nirs_coords
    \/ Call_Artworks_process_two
    \/ Call_run_job

vars == <<parser_vars, dyad_vars, demo_vars, nirs_vars, handler_vars, drv_vars>>

ParserSpec == ParserInit /\ [][ParserNext]_vars

LoaderSpec == LoaderInit /\ [][LoaderNext]_vars

NirsSpec == NirsInit /\ [][NirsNext]_vars

HandlerSpec == HandlerInit /\ [][HandlerNext]_vars

(***************************************************************************)
(* The runs of ArtworksConverter, CoordinatesConverter and MoCapConverter. *)
(***************************************************************************)
\* str.upper() of one character, and of a string
Upper(c) ==
    IF \E i \in 1..26 : LowerAlpha[i] = c
    THEN UpperAlpha[CHOOSE i \in 1..26 : LowerAlpha[i] = c]
    ELSE c

UpperStr(s) == [k \in 1..Len(s) |-> Upper(s[k])]

\* what a source directory may hold: files, and folders with their files
ArtEntries ==
    { [name |-> << "d", "y", "a", "d", "-", "1", "0", "0", "1", "-", "D", "2", "_", "s", "e", "s", "s", "i", "o", "n", "-", "3", ".", "t", "i", "f" >>,
       is_dir |-> FALSE, files |-> {}],
      [name |-> << "s", "u", "b", "-", "1", "0", "2", "-", "s", "o", "l", "o", "_", "s", "e", "s", "s", "i", "o", "n", "-", "1", ".", "j", "p", "g" >>,
       is_dir |-> FALSE, files |-> {}],
      [name |-> << "D", "Y", "A", "D", "-", "1", "0", "0", "1", "-", "d", "2", "_", "S", "E", "S", "S", "I", "O", "N", "-", "3", ".", "T", "I", "F" >>,
       is_dir |-> FALSE, files |-> {}],
      [name |-> << "h", "o", "l", "i", "d", "a", "y", ".", "p", "n", "g" >>,
       is_dir |-> FALSE, files |-> {}],
      [name |-> << "n", "o", "t", "e", "s", ".", "t", "x", "t" >>,
       is_dir |-> FALSE, files |-> {}] }

CoordEntries ==
    { [name |-> << "s", "u", "b", "-", "1", "0", "2", "_", "s", "e", "s", "s", "i", "o", "n", "-", "1" >>,
       is_dir |-> TRUE, files |-> {<< "s", "u", "b", "-", "1", "0", "2", "_", "s", "e", "s", "s", "i", "o", "n", "-", "1", ".", "c", "s", "v" >>}],
      [name |-> << "s", "u", "b", "-", "0", "0", "7", "_", "s", "e", "s", "s", "i", "o", "n", "-", "0", "1" >>,
       is_dir |-> TRUE, files |-> {<< "s", "u", "b", "-", "0", "0", "7", "_", "s", "e", "s", "s", "i", "o", "n", "-", "0", "1", ".", "c", "s", "v" >>, << "s", "u", "b", "-", "0", "0", "7", "_", "s", "e", "s", "s", "i", "o", "n", "-", "0", "1", "_", "d", "i", "s", "t", "a", "n", "c", "e", "s", ".", "c", "s", "v" >>, << "s", "u", "b", "-", "0", "0", "7", "_", "s", "e", "s", "s", "i", "o", "n", "-", "0", "1", "_", "o", "p", "t", "o", "d", "e", "_", "d", "i", "s", "t", ".", "c", "s", "v" >>}],
      [name |-> << "s", "u", "b", "-", "5", "_", "s", "e", "s", "s", "i", "o", "n", "-", "2" >>,
       is_dir |-> TRUE, files |-> {}],
      [name |-> << "s", "u", "b", "-", "9", "_", "s", "e", "s", "s", "i", "o", "n", "-", "1", ".", "t", "x", "t" >>,
       is_dir |-> FALSE, files |-> {}] }

MocapEntries ==
    { [name |-> << "d", "y", "a", "d", "-", "1", "0", "0", "1", "_", "s", "e", "s", "s", "i", "o", "n", "-", "1", "_", "t", "a", "s", "k", "-", "1", ".", "c", "s", "v" >>,
       is_dir |-> FALSE, files |-> {}],
      [name |-> << "d", "y", "a", "d", "-", "1", "0", "0", "1", "_", "s", "e", "s", "s", "i", "o", "n", "-", "1", "_", "t", "a", "s", "k", "-", "9", ".", "c", "s", "v" >>,
       is_dir |-> FALSE, files |-> {}],
      [name |-> << "d", "y", "a", "d", "-", "2", "0", "0", "2", "_", "s", "e", "s", "s", "i", "o", "n", "-", "1", "_", "t", "a", "s", "k", "-", "2", ".", "C", "S", "V" >>,
       is_dir |-> FALSE, files |-> {}],
      [name |-> << "r", "e", "a", "d", "m", "e", ".", "m", "d" >>,
       is_dir |-> FALSE, files |-> {}] }

EntriesOf(d) ==
    IF d = "artworks" THEN ArtEntries
    ELSE IF d = "coordinates" THEN CoordEntries
    ELSE MocapEntries

\* the extensions of ArtworksConverter._gather_files and of
\* MoCapConverter.__init__, each without its leading "*"
ArtExtensions ==
    { << ".", "t", "i", "f" >>, << ".", "t", "i", "f", "f" >>, << ".", "j", "p", "g" >>, << ".", "p", "n", "g" >> }

MocapExtensions == { << ".", "c", "s", "v" >> }

\* _gather_files before sorting: glob(ext) and glob(ext.upper()) for each
\* extension; glob compares the characters as they are
gather_files(entries, extensions) ==
    { e.name : e \in { x \in entries :
                         \E ext \in extensions :
                             \/ endswith(x.name, ext)
                             \/ endswith(x.name, UpperStr(ext)) } }

\* _gather_folders before sorting: glob("sub-*"), directories only
gather_folders(entries) ==
    { e.name : e \in { x \in entries :
                         /\ x.is_dir
                         /\ Len(x.name) >= 4
                         /\ SubSeq(x.name, 1, 4) = << "s", "u", "b", "-" >> } }

\* the candidates of a run, sorted
Drv_gather_files(d, entries) ==
    sorted(IF d = "artworks" THEN gather_files(entries, ArtExtensions)
           ELSE IF d = "coordinates" THEN gather_folders(entries)
           ELSE gather_files(entries, MocapExtensions))

\* the entry of the source directory with this name
EntryOf(entries, name) == CHOOSE e \in entries : e.name = name

\* _process_single_file of the converter d on the candidate e
Drv_process(d, e, copy_fails) ==
    IF d = "artworks" THEN Artworks_process_single_file(e.name, copy_fails # {})
    ELSE IF d = "coordinates"
    THEN Coordinates_process_single_file(e.name, e.files, copy_fails)
    ELSE MoCap_process_single_file(e.name, copy_fails # {})

\* a mutant of Base_validate_paths: the output root is made before the test
Base_validate_paths_MkdirFirst(source) ==
    [ok |-> source = "exists", mkdir |-> source # "None"]

\* _validate_paths of BaseConverter and of ArtworksConverter: whether the
\* source is there, and whether mkdir was called on the output root
Base_validate_paths(source) ==
    IF source = "None" THEN [ok |-> FALSE, mkdir |-> FALSE]
    ELSE IF source # "exists" THEN [ok |-> FALSE, mkdir |-> FALSE]
    ELSE [ok |-> TRUE, mkdir |-> TRUE]

\* a converter was constructed over a source directory.  ArtworksConverter's
\* constructor raises when the configuration has no source, so its
\* source_dir is a path; BaseConverter's sets source_dir to None then.
DriverInit ==
    /\ ParserIdle
    /\ LoadersIdle
    /\ NirsIdle
    /\ HandlersIdle
    /\ drv \in { "artworks", "coordinates", "mocap" }
    /\ drv_pc = "start"
    /\ drv_source \in { "None", "missing", "exists" }
    /\ drv = "artworks" => drv_source # "None"
    /\ drv_listing \in SUBSET EntriesOf(drv)
    /\ drv_source # "exists" => drv_listing = {}
    /\ drv_files = << >>
    /\ drv_i = 0
    /\ success_count = 0
    /\ fail_count = 0
    /\ copied = << >>
    /\ reported = << >>
    /\ output_made = FALSE

\* run: "if not self._validate_paths(): return"
Drv_validate_paths ==
    /\ drv_pc = "start"
    /\ drv_pc' = IF Base_validate_paths(drv_source).ok
                 THEN "validated" ELSE "returned"
    /\ output_made' = Base_validate_paths(drv_source).mkdir
    /\ UNCHANGED <<drv, drv_source, drv_listing, drv_files, drv_i,
                   success_count, fail_count, copied, reported,
                   parser_vars, dyad_vars, demo_vars, nirs_vars, handler_vars>>

\* run: files = self._gather_files(), and the return when there is none
Drv_gather ==
    /\ drv_pc = "validated"
    /\ drv_files' = Drv_gather_files(drv, drv_listing)
    /\ drv_pc' = IF Drv_gather_files(drv, drv_listing) = << >>
                 THEN "returned" ELSE "loop"
    /\ UNCHANGED <<drv, drv_source, drv_listing, drv_i,
                   success_count, fail_count, copied, reported, output_made,
                   parser_vars, dyad_vars, demo_vars, nirs_vars, handler_vars>>

\* run: one iteration of the loop over files, which has no try around it,
\* and after the last file the final report of the two counts (reported:
\* the final reports the run has printed)
Drv_process_single_file ==
    /\ drv_pc = "loop"
    /\ drv_i < Len(drv_files)
    /\ LET e == EntryOf(drv_listing, drv_files[drv_i + 1])
       IN  \E copy_fails \in SUBSET e.files :
             LET r == Drv_process(drv, e, copy_fails)
                 s == IF r.ok THEN success_count + 1 ELSE success_count
                 f == IF r.ok THEN fail_count ELSE fail_count + 1
             IN  IF r.exc # ""
                 THEN /\ drv_pc' = "raised"
                      /\ UNCHANGED <<drv_i, success_count, fail_count,
                                     copied, reported>>
                 ELSE /\ success_count' = s
                      /\ fail_count' = f
                      /\ copied' = copied \o r.copies
                      /\ drv_i' = drv_i + 1
                      /\ IF drv_i + 1 = Len(drv_files)
                         THEN /\ drv_pc' = "complete"
                              /\ reported' = Append(reported,
                                      [success |-> s, failures |-> f])
                         ELSE /\ drv_pc' = "loop"
                              /\ UNCHANGED reported
    /\ UNCHANGED <<drv, drv_source, drv_listing, drv_files, output_made,
                   parser_vars, dyad_vars, demo_vars, nirs_vars, handler_vars>>

DriverNext ==
    \/ Drv_validate_paths
    \/ Drv_gather
    \/ Drv_process_single_file

DriverSpec == DriverInit /\ [][DriverNext]_vars

(***************************************************************************)
(* What a name contains, stated on the name itself.                        *)
(***************************************************************************)
L_sub      == << "s", "u", "b" >>
L_ses      == << "s", "e", "s" >>
L_session  == << "s", "e", "s", "s", "i", "o", "n" >>
L_run      == << "r", "u", "n" >>
L_sessionH == << "s", "e", "s", "s", "i", "o", "n", "-" >>

\* <tag>-?<digits> occurs at position i
TagAt(f, i, tag) ==
    /\ LitAt(f, i, tag)
    /\ \/ DigitsAt(f, i + Len(tag))
       \/ /\ i + Len(tag) <= Len(f)
          /\ f[i + Len(tag)] = "-"
          /\ DigitsAt(f, i + Len(tag) + 1)

HasTag(f, tag) == \E i \in 1..Len(f) : TagAt(f, i, tag)

\* the digits of the first <tag>-?<digits> of the name
FirstTagDigits(f, tag) ==
    LET i == Leftmost({ k \in 1..Len(f) : TagAt(f, k, tag) })
        p == IF DigitsAt(f, i + Len(tag)) THEN i + Len(tag)
             ELSE i + Len(tag) + 1
    IN  SubSeq(f, p, DigitRunEnd(f, p))

HasSubTag(f) == HasTag(f, L_sub)
HasSesTag(f) == HasTag(f, L_ses) \/ HasTag(f, L_session)
HasRunTag(f) == HasTag(f, L_run)

\* session-<letter> occurs at position i
SesLetterAt(f, i) ==
    /\ LitAt(f, i, L_sessionH)
    /\ i + 8 <= Len(f)
    /\ IsLetter(f[i + 8])

\* session-<letter>_<digits> occurs at position i
SesLetterDigitsAt(f, i) ==
    /\ SesLetterAt(f, i)
    /\ i + 9 <= Len(f)
    /\ f[i + 9] = "_"
    /\ DigitsAt(f, i + 10)

HasSesLetter(f) == \E i \in 1..Len(f) : SesLetterAt(f, i)
HasSesLetterDigits(f) == \E i \in 1..Len(f) : SesLetterDigitsAt(f, i)

FirstSesLetter(f) == Leftmost({ i \in 1..Len(f) : SesLetterAt(f, i) })
FirstSesLetterDigits(f) == Leftmost({ i \in 1..Len(f) : SesLetterDigitsAt(f, i) })

\* the run a letter stands for: a -> 01, b -> 02, ...
LetterRun(c) == fmt02d(CHOOSE n \in 1..26 : LowerAlpha[n] = Lower(c))

\* the name is sub-<N>_session-<M>, with or without one of the extensions
SubSessionForm(f, i, j) ==
    /\ LitAt(f, 1, << "s", "u", "b", "-" >>)
    /\ i >= 5 /\ i = DigitRunEnd(f, 5)
    /\ LitAt(f, i + 1, << "_", "s", "e", "s", "s", "i", "o", "n", "-" >>)
    /\ j >= i + 10 /\ j = DigitRunEnd(f, i + 10)
    /\ SubSeq(f, j + 1, Len(f)) \in ExtParts

IsSubSessionForm(f) ==
    \E i \in 1..Len(f) : \E j \in 1..Len(f) : SubSessionForm(f, i, j)

SubSessionM(f) ==
    LET ij == CHOOSE ij \in (1..Len(f)) \X (1..Len(f)) :
                  SubSessionForm(f, ij[1], ij[2])
    IN  SubSeq(f, ij[1] + 10, ij[2])

AllDigits(s) == \A k \in 1..Len(s) : IsDigit(s[k])

(***************************************************************************)
(* C1.  parse_common_components and the two mandatory tags.                *)
(***************************************************************************)
\* C1 as stated: standard-mode parsing returns None for subject, session and
\* run whenever the name lacks a sub-<digits> tag or lacks a
\* (ses|session)-<digits> tag (hyphen optional), and returns a non-None
\* subject and session only when both tags are present.
C1_AsStated ==
    call = "parse_common_components" =>
        /\ (~HasSubTag(filename) \/ ~HasSesTag(filename)) =>
               (ret.sub = None /\ ret.ses = None /\ ret.run = None)
        /\ (ret.sub # None /\ ret.ses # None) =>
               (HasSubTag(filename) /\ HasSesTag(filename))

\* C1 amended: the session may also be carried by session-<letter>_<digits>.
\* Standard-mode parsing returns None for subject, session and run whenever
\* the name lacks a sub-?<digits> tag or lacks both a (ses|session)-?<digits>
\* tag and a session-<letter>_<digits> tag, and returns a non-None subject
\* and session only when a subject tag and one of the two session forms are
\* present.
C1_NoneUnlessBothTags ==
    call = "parse_common_components" =>
        /\ (~HasSubTag(filename)
              \/ ~(HasSesTag(filename) \/ HasSesLetterDigits(filename))) =>
               (ret.sub = None /\ ret.ses = None /\ ret.run = None)
        /\ (ret.sub # None /\ ret.ses # None) =>
               /\ HasSubTag(filename)
               /\ HasSesTag(filename) \/ HasSesLetterDigits(filename)

\* a name with a subject tag and no session of either form was parsed, and
\* the parse failed
C1_Witness ==
    /\ call = "parse_common_components"
    /\ HasSubTag(filename)
    /\ ~HasSesTag(filename) /\ ~HasSesLetterDigits(filename)
    /\ ret.none /\ ret.sub = None

(***************************************************************************)
(* C2.  Canonical two-digit subject and session.                           *)
(***************************************************************************)
\* the digits a parsing mode captures for the subject and for the session
StdSubDigits(f) == FirstTagDigits(f, L_sub)
StdSesDigits(f) ==
    IF HasSesLetterDigits(f)
    THEN LET p == FirstSesLetterDigits(f) + 10
         IN  SubSeq(f, p, DigitRunEnd(f, p))
    ELSE IF HasTag(f, L_ses) /\ (~HasTag(f, L_session)
              \/ Leftmost({ k \in 1..Len(f) : TagAt(f, k, L_ses) })
                 < Leftmost({ k \in 1..Len(f) : TagAt(f, k, L_session) }))
    THEN FirstTagDigits(f, L_ses)
    ELSE FirstTagDigits(f, L_session)

\* C2: in every parsing mode the subject and session returned are the
\* integer value of the captured digits re-formatted to 2 digits, so that
\* names differing only in leading zeros give the same subject and session.
C2_Canonical ==
    /\ (call = "parse_common_components" /\ ~ret.none) =>
           /\ ret.sub = fmt02d(int(StdSubDigits(filename)))
           /\ ret.ses = fmt02d(int(StdSesDigits(filename)))
    /\ (call = "parse_artwork_filename" /\ ~ret.none) =>
           /\ ret.ses = fmt02d(int(ret.ses))
           /\ ret.task = Solo => ret.sub = fmt02d(int(ret.sub))
    /\ (call = "parse_coordinates_folder" /\ ~ret.none) =>
           /\ ret.sub = fmt02d(int(ret.sub))
           /\ ret.ses = fmt02d(int(ret.ses))

(***************************************************************************)
(* C3.  Every recording gets a run.                                        *)
(***************************************************************************)
\* C3: for every name of the form sub-{N}_session-{M} with no run tag,
\* standard-mode parsing yields run "01" and session M padded with zeros to
\* a width of 2; and every name that parses in standard mode gets a run of
\* at least 2 digits.
C3_RunDefault ==
    call = "parse_common_components" =>
        /\ (IsSubSessionForm(filename) /\ ~HasRunTag(filename)) =>
               /\ ~ret.none
               /\ ret.run = << "0", "1" >>
               /\ ret.ses = zfill2(SubSessionM(filename))
        /\ ~ret.none =>
               /\ Len(ret.run) >= 2
               /\ AllDigits(ret.run)

C3_Witness ==
    /\ call = "parse_common_components"
    /\ IsSubSessionForm(filename) /\ ~HasRunTag(filename)
    /\ Len(SubSessionM(filename)) = 1
    /\ ret.run = << "0", "1" >>
    /\ ret.ses = << "0" >> \o SubSessionM(filename)

(***************************************************************************)
(* C4.  session-<letter>_<digits>.                                         *)
(***************************************************************************)
\* the letter and the digits of the first session-<letter>_<digits>
SpecialLetter(f) == f[FirstSesLetterDigits(f) + 8]
SpecialDigits(f) ==
    LET p == FirstSesLetterDigits(f) + 10
    IN  SubSeq(f, p, DigitRunEnd(f, p))

PidCell(rows, r, c) == IF c = 1 THEN rows[r].pID1 ELSE rows[r].pID2

\* the cells of a table: <<row, column>>
PidCellsOf(rows) == (1..Len(rows)) \X {1, 2}

\* the cell holds a subject id
IsSubjectCell(rows, o) == IntOk(PidCell(rows, o[1], o[2]))

\* the subject id of a cell, as an integer
SubjectOf(rows, o) == int(PidCell(rows, o[1], o[2]))

\* the dyad table loads: it is a table with its three columns, and every
\* pID cell is a number or empty
DyadLoads(csv) ==
    /\ csv.status = "ok"
    /\ \A o \in PidCellsOf(csv.rows) :
           IsSubjectCell(csv.rows, o) \/ PidCell(csv.rows, o[1], o[2]) = NaN

\* cell o2 comes after cell o1 when the table is melted: the pID1 column
\* from top to bottom, then the pID2 column from top to bottom
MeltedAfter(o1, o2) == o2[2] > o1[2] \/ (o2[2] = o1[2] /\ o2[1] > o1[1])

\* the same subject id occurs in another cell
OccursAgain(rows, o) ==
    \E o2 \in PidCellsOf(rows) :
        o2 # o /\ IsSubjectCell(rows, o2) /\ SubjectOf(rows, o2) = SubjectOf(rows, o)

(***************************************************************************)
(* C6.  The dyad map of a table that loads.                                *)
(***************************************************************************)
\* C6 as stated: for every row (dyadID, pID1, pID2) of a dyad table that
\* loads, load_dyad_mapping maps str(int(pID1)) and str(int(pID2)) to
\* dyadID, and no key keeps a leading zero.
C6_AsStated ==
    (dyad_ret.called /\ DyadLoads(dyad_csv)) =>
        /\ \A o \in PidCellsOf(dyad_csv.rows) :
               IsSubjectCell(dyad_csv.rows, o) =>
                   LET key == str(SubjectOf(dyad_csv.rows, o))
                   IN  /\ key \in DOMAIN dyad_ret.value
                       /\ dyad_ret.value[key] = dyad_csv.rows[o[1]].dyadID
        /\ \A k \in DOMAIN dyad_ret.value : k # NaN => k = str(int(k))

\* C6 amended: a later cell of the same subject id takes the key.  For every
\* row (dyadID, pID1, pID2) of a dyad table that loads, load_dyad_mapping
\* maps str(int(pID1)) and str(int(pID2)) to dyadID, unless the same
\* subject id occurs again later in the melted table (the pID1 column from
\* top to bottom, then the pID2 column from top to bottom); every subject id
\* of the table is a key, and no key keeps a leading zero.
C6_DyadMap ==
    (dyad_ret.called /\ DyadLoads(dyad_csv)) =>
        /\ \A o \in PidCellsOf(dyad_csv.rows) :
               IsSubjectCell(dyad_csv.rows, o) =>
                   LET key == str(SubjectOf(dyad_csv.rows, o))
                       again == \E o2 \in PidCellsOf(dyad_csv.rows) :
                                    /\ MeltedAfter(o, o2)
                                    /\ IsSubjectCell(dyad_csv.rows, o2)
                                    /\ SubjectOf(dyad_csv.rows, o2)
                                         = SubjectOf(dyad_csv.rows, o)
                   IN  /\ key \in DOMAIN dyad_ret.value
                       /\ ~again =>
                            dyad_ret.value[key] = dyad_csv.rows[o[1]].dyadID
        /\ \A k \in DOMAIN dyad_ret.value : k # NaN => k = str(int(k))

\* the table of the spec (here with subject ids 01 and 2) was loaded
C6_Witness ==
    /\ dyad_ret.called
    /\ dyad_csv = [status |-> "ok",
                   rows |-> << [dyadID |-> << "1", "0", "0", "1" >>, pID1 |-> << "0", "1" >>, pID2 |-> << "2" >>] >>]
    /\ dyad_ret.value = (<< "1" >> :> << "1", "0", "0", "1" >>) @@ (<< "2" >> :> << "1", "0", "0", "1" >>)

(***************************************************************************)
(* C7.  A subject id that occurs more than once.                           *)
(***************************************************************************)
\* C7 as stated: when a subject id occurs more than once in the dyad table
\* (in any mix of the two columns), the map holds exactly one entry for it,
\* with the dyadID of the occurrence in the latest table row.
C7_AsStated ==
    (dyad_ret.called /\ DyadLoads(dyad_csv)) =>
        \A o \in PidCellsOf(dyad_csv.rows) :
            ( /\ IsSubjectCell(dyad_csv.rows, o)
              /\ OccursAgain(dyad_csv.rows, o)
              /\ \A o2 \in PidCellsOf(dyad_csv.rows) :
                     ( /\ IsSubjectCell(dyad_csv.rows, o2)
                       /\ SubjectOf(dyad_csv.rows, o2) = SubjectOf(dyad_csv.rows, o) )
                     => o2[1] <= o[1] ) =>
                LET key == str(SubjectOf(dyad_csv.rows, o))
                IN  /\ key \in DOMAIN dyad_ret.value
                    /\ dyad_ret.value[key] = dyad_csv.rows[o[1]].dyadID

\* C7 amended: the last occurrence is the last one of the melted table, not
\* the one of the latest row.  When a subject id occurs more than once, the
\* map holds exactly one entry for it, with the dyadID of its last
\* occurrence in the order pID1 column top to bottom, then pID2 column top
\* to bottom: a pID2 occurrence overwrites every pID1 occurrence whatever
\* their rows, and within one column a later row overwrites an earlier one.
C7_LastMeltedWins ==
    (dyad_ret.called /\ DyadLoads(dyad_csv)) =>
        \A o \in PidCellsOf(dyad_csv.rows) :
            ( /\ IsSubjectCell(dyad_csv.rows, o)
              /\ OccursAgain(dyad_csv.rows, o)
              /\ \A o2 \in PidCellsOf(dyad_csv.rows) :
                     ( /\ IsSubjectCell(dyad_csv.rows, o2)
                       /\ SubjectOf(dyad_csv.rows, o2) = SubjectOf(dyad_csv.rows, o) )
                     => ~MeltedAfter(o, o2) ) =>
                LET key == str(SubjectOf(dyad_csv.rows, o))
                IN  /\ key \in DOMAIN dyad_ret.value
                    /\ dyad_ret.value[key] = dyad_csv.rows[o[1]].dyadID
                    /\ Cardinality({ k \in DOMAIN dyad_ret.value :
                                       k # NaN /\ int(k) = SubjectOf(dyad_csv.rows, o) }) = 1

\* subject 2 is pID2 of row 1 (dyad 1001) and pID1 of row 2 (dyad 2002):
\* the map gives 1001, the dyad of the earlier row
C7_Witness ==
    /\ dyad_ret.called
    /\ DyadLoads(dyad_csv)
    /\ Len(dyad_csv.rows) = 2
    /\ dyad_csv.rows[1].dyadID = << "1", "0", "0", "1" >> /\ dyad_csv.rows[1].pID2 = << "2" >>
    /\ dyad_csv.rows[2].dyadID = << "2", "0", "0", "2" >> /\ dyad_csv.rows[2].pID1 = << "2" >>
    /\ dyad_csv.rows[2].pID2 # << "2" >>
    /\ dyad_ret.value[<< "2" >>] = << "1", "0", "0", "1" >>

(***************************************************************************)
(* C8.  The demographics record of a row.                                  *)
(***************************************************************************)
\* the code of a gender, compared case-insensitively
GenderCode(g) ==
    IF g = NaN THEN 0
    ELSE IF LowerStr(g) \in { << "m", "a", "l", "e" >>, << "m" >> } THEN 1
    ELSE IF LowerStr(g) \in { << "f", "e", "m", "a", "l", "e" >>, << "f" >> } THEN 2
    ELSE 0

\* str(int(p_id)) + "_" + visit zero-padded to 2 digits
RowKey(row) == str(int(row.p_id)) \o << "_" >> \o zfill2(str(int(row.visit)))

\* C8: for every row (p_id, visit, gender, age) that load_demographics
\* processes, it stores under the key str(int(p_id)) + "_" + visit (2
\* digits) the record {age: the row's age, sex: code}, code being 1 for
\* male or m, 2 for female or f (in any case) and 0 otherwise: the record is
\* in the dictionary right after the row, and in the returned dictionary of
\* a table that loads unless a later row has the same key.
C8_Stores ==
    /\ (demo_pc = "loop" /\ demo_i >= 1) =>
           LET row == demo_csv.rows[demo_i]
           IN  /\ RowKey(row) \in DOMAIN lookup
               /\ lookup[RowKey(row)] = [age |-> row.age, sex |-> GenderCode(row.gender)]
    /\ (demo_pc = "returned" /\ demo_csv.status = "ok" /\ demo_i = Len(demo_csv.rows)) =>
           \A i \in 1..Len(demo_csv.rows) :
               LET row == demo_csv.rows[i]
               IN  /\ RowKey(row) \in DOMAIN demo_ret.value
                   /\ (\A j \in (i + 1)..Len(demo_csv.rows) :
                           RowKey(demo_csv.rows[j]) # RowKey(row)) =>
                        demo_ret.value[RowKey(row)]
                            = [age |-> row.age, sex |-> GenderCode(row.gender)]

\* the row (07, 1, F, 34) was stored as "7_01" -> {age "34", sex 2}
C8_Witness ==
    /\ demo_pc = "loop"
    /\ demo_i = 1
    /\ demo_csv.rows[1] = DemoRowR(<< "0", "7" >>, << "1" >>, << "F" >>, << "3", "4" >>)
    /\ lookup = (<< "7", "_", "0", "1" >> :> [age |-> << "3", "4" >>, sex |-> 2])

(***************************************************************************)
(* C9.  A run without the dyad-list file.                                  *)
(***************************************************************************)
\* the name carries the two tags a recording needs
Parsable(f) == HasSubTag(f) /\ HasSesTag(f)

\* the recording of file f was written with no acquisition label
ConvertedWithoutAcq(f) ==
    \E k \in 1..Len(written) :
        written[k].file = f /\ written[k].acquisition = None

\* C9: when the dyad-list file does not exist, load_dyad_mapping returns an
\* empty mapping without raising, every later dyad lookup returns absent,
\* and a recordings run still converts every parsable file, each with no
\* acquisition label.
C9_MissingDyadFile ==
    dyad_csv.status = "missing" =>
        /\ nirs_pc \in {"loaded", "loop", "complete", "raised"} =>
               /\ self_dyad_lookup = << >>
               /\ \A k \in 1..Len(snirf_files) :
                      Parsable(snirf_files[k]) =>
                          _get_dyad_for_sub(self_dyad_lookup,
                              FirstTagDigits(snirf_files[k], L_sub)) = None
        /\ nirs_pc \in {"complete", "raised"} =>
               \A k \in 1..Len(snirf_files) :
                   Parsable(snirf_files[k]) => ConvertedWithoutAcq(snirf_files[k])

(***************************************************************************)
(* C10.  The loaders never raise.                                          *)
(***************************************************************************)
\* a pID cell that is text but no number (an empty cell is not malformed:
\* the table loads with it)
DyadMalformed(csv) ==
    \E o \in PidCellsOf(csv.rows) :
        ~IsSubjectCell(csv.rows, o) /\ PidCell(csv.rows, o[1], o[2]) # NaN

\* a p_id or a visit that is no number
DemoMalformed(csv) ==
    \E i \in 1..Len(csv.rows) :
        ~IntOk(csv.rows[i].p_id) \/ ~IntOk(csv.rows[i].visit)

\* C10: load_dyad_mapping and load_demographics never raise: when the table
\* cannot be read, lacks an expected column or contains a malformed row (a
\* non-numeric p_id, visit or pID), the loader returns an empty mapping.
C10_NeverRaise ==
    /\ dyad_ret.called =>
           /\ ~dyad_ret.raised
           /\ (dyad_csv.status # "ok" \/ DyadMalformed(dyad_csv)) =>
                  dyad_ret.value = << >>
    /\ demo_pc = "returned" =>
           /\ ~demo_ret.raised
           /\ (demo_csv.status # "ok" \/ DemoMalformed(demo_csv)) =>
                  demo_ret.value = << >>

\* a malformed second row: the first row was stored, and the loader returned
\* an empty mapping without raising
C10_Witness ==
    /\ demo_pc = "returned"
    /\ demo_csv.status = "ok"
    /\ demo_i = 1
    /\ lookup # << >>
    /\ Len(demo_csv.rows) = 2
    /\ ~IntOk(demo_csv.rows[2].visit)
    /\ ~demo_ret.raised
    /\ demo_ret.value = << >>

(***************************************************************************)
(* C11.  Together artworks.                                                *)
(***************************************************************************)
\* dyad-<d>-D<t>_session-<m> starts at position i of the name
TogetherAt(f, i) ==
    /\ LitAt(f, i, << "d", "y", "a", "d", "-" >>)
    /\ DigitsAt(f, i + 5)
    /\ LET e1 == DigitRunEnd(f, i + 5)
       IN  /\ LitAt(f, e1 + 1, << "-", "d" >>)
           /\ DigitsAt(f, e1 + 3)
           /\ LET e2 == DigitRunEnd(f, e1 + 3)
              IN  LitAt(f, e2 + 1, << "_", "s", "e", "s", "s", "i", "o", "n", "-" >>) /\ DigitsAt(f, e2 + 10)

HasTogether(f) == \E i \in 1..Len(f) : TogetherAt(f, i)

\* d, t and m of the first dyad-<d>-D<t>_session-<m> of the name
TogetherParts(f) ==
    LET i  == Leftmost({ k \in 1..Len(f) : TogetherAt(f, k) })
        e1 == DigitRunEnd(f, i + 5)
        e2 == DigitRunEnd(f, e1 + 3)
    IN  [d |-> SubSeq(f, i + 5, e1),
         t |-> SubSeq(f, e1 + 3, e2),
         m |-> SubSeq(f, e2 + 10, DigitRunEnd(f, e2 + 10))]

\* digits zero-padded to 2: one digit gets a zero in front
Pad2(m) == IF Len(m) = 1 THEN << "0" >> \o m ELSE m

\* C11: for every filename containing dyad-<d>-D<t>_session-<m>, artwork
\* parsing returns {dyad: d, task_num: t, ses: m zero-padded to 2, task:
\* together, sub: None}, also when the name matches the solo pattern too,
\* and the same for every dyad table.
C11_Together ==
    (call = "parse_artwork_filename" /\ HasTogether(filename)) =>
        LET p == TogetherParts(filename)
            expected == [none |-> FALSE, sub |-> None, ses |-> Pad2(p.m),
                         run |-> None, dyad |-> p.d, task |-> Together,
                         task_num |-> p.t]
        IN  /\ ret = expected
            /\ \A table \in ParserDyadMaps :
                   parse_artwork_filename(table, filename) = expected

\* a name with both patterns, the solo one first, and a table that knows the
\* solo subject: the together result is returned
C11_Witness ==
    /\ call = "parse_artwork_filename"
    /\ filename = << "s", "u", "b", "-", "1", "0", "2", "-", "s", "o", "l", "o", "_", "s", "e", "s", "s", "i", "o", "n", "-", "1", "_", "d", "y", "a", "d", "-", "1", "0", "0", "1", "-", "D", "2", "_", "s", "e", "s", "s", "i", "o", "n", "-", "3", ".", "t", "i", "f" >>
    /\ << "1", "0", "2" >> \in DOMAIN dyad_lookup
    /\ ret.task = Together
    /\ ret.dyad = << "1", "0", "0", "1" >>
    /\ ret.task_num = << "2" >>
    /\ ret.ses = << "0", "3" >>
    /\ ret.sub = None

(***************************************************************************)
(* C12.  The destination name of a solo artwork.                           *)
(***************************************************************************)
\* sub-<S>-solo_session-<M> starts at position i of the name
SoloAt(f, i) ==
    /\ LitAt(f, i, << "s", "u", "b", "-" >>)
    /\ DigitsAt(f, i + 4)
    /\ LET e1 == DigitRunEnd(f, i + 4)
       IN  LitAt(f, e1 + 1, << "-", "s", "o", "l", "o", "_", "s", "e", "s", "s", "i", "o", "n", "-" >>) /\ DigitsAt(f, e1 + 15)

\* S and M of the first sub-<S>-solo_session-<M> of the name
SoloParts(f) ==
    LET i  == Leftmost({ k \in 1..Len(f) : SoloAt(f, k) })
        e1 == DigitRunEnd(f, i + 4)
    IN  [S |-> SubSeq(f, i + 4, e1),
         M |-> SubSeq(f, e1 + 15, DigitRunEnd(f, e1 + 15))]

\* the file is a solo artwork file: its name has the solo form and not the
\* together form
IsSoloFile(f) == (\E i \in 1..Len(f) : SoloAt(f, i)) /\ ~HasTogether(f)

\* the extension of a name: from its last dot on
ExtOf(f) ==
    LET i == CHOOSE k \in 1..Len(f) :
                 f[k] = "." /\ \A k2 \in (k + 1)..Len(f) : f[k2] # "."
    IN  SubSeq(f, i, Len(f))

\* sub-{sub}_ses-{ses}_acq-dyad{D}_task-drawingalone_artwork{ext}
SoloName(sub, ses, D, ext) ==
    << "s", "u", "b", "-" >> \o sub \o << "_", "s", "e", "s", "-" >> \o ses \o << "_", "a", "c", "q", "-", "d", "y", "a", "d" >> \o D
        \o << "_", "t", "a", "s", "k", "-", "d", "r", "a", "w", "i", "n", "g", "a", "l", "o", "n", "e", "_", "a", "r", "t", "w", "o", "r", "k" >> \o ext

\* a solo file whose subject has a dyad was processed, and copied
SoloProcessed ==
    /\ h_call = "Artworks_process_parsed"
    /\ IsSoloFile(h_args.file_name)
    /\ str(int(SoloParts(h_args.file_name).S)) \in DOMAIN h_args.table
    /\ ~h_args.copy_raises

\* C12 as stated: the destination name of a solo artwork file
\* sub-<S>-solo_session-<M><ext> whose subject has dyad D is
\* sub-{sub}_ses-{ses}_acq-dyad{D}_task-drawingalone_artwork{ext}; in
\* particular sub-102-solo_session-1.jpg with subject 102 in dyad 2002 gets
\* sub-02_ses-01_acq-dyad2002_task-drawingalone_artwork.jpg.
C12_AsStated ==
    SoloProcessed =>
        LET f == h_args.file_name
            D == h_args.table[str(int(SoloParts(f).S))]
        IN  /\ Len(h_ret.copies) = 1
            /\ h_ret.copies[1].file_name
                 = SoloName(Pad2(SoloParts(f).S), Pad2(SoloParts(f).M), D, ExtOf(f))
            /\ (f = << "s", "u", "b", "-", "1", "0", "2", "-", "s", "o", "l", "o", "_", "s", "e", "s", "s", "i", "o", "n", "-", "1", ".", "j", "p", "g" >> /\ D = << "2", "0", "0", "2" >>) =>
                   h_ret.copies[1].file_name
                     = << "s", "u", "b", "-", "0", "2", "_", "s", "e", "s", "-", "0", "1", "_", "a", "c", "q", "-", "d", "y", "a", "d", "2", "0", "0", "2", "_", "t", "a", "s", "k", "-", "d", "r", "a", "w", "i", "n", "g", "a", "l", "o", "n", "e", "_", "a", "r", "t", "w", "o", "r", "k", ".", "j", "p", "g" >>

\* C12 amended: the subject keeps all its digits and the extension is
\* lowered.  The destination name is sub-{sub}_ses-{ses}_acq-dyad{D}_task-
\* drawingalone_artwork{ext} with sub = S and ses = M zero-padded to 2 and
\* ext the extension in lower case; in particular sub-102-solo_session-1.jpg
\* with subject 102 in dyad 2002 gets
\* sub-102_ses-01_acq-dyad2002_task-drawingalone_artwork.jpg.
C12_SoloName ==
    SoloProcessed =>
        LET f == h_args.file_name
            D == h_args.table[str(int(SoloParts(f).S))]
        IN  /\ h_ret.ok
            /\ Len(h_ret.copies) = 1
            /\ h_ret.copies[1].file_name
                 = SoloName(Pad2(SoloParts(f).S), Pad2(SoloParts(f).M), D,
                            LowerStr(ExtOf(f)))
            /\ (f = << "s", "u", "b", "-", "1", "0", "2", "-", "s", "o", "l", "o", "_", "s", "e", "s", "s", "i", "o", "n", "-", "1", ".", "j", "p", "g" >> /\ D = << "2", "0", "0", "2" >>) =>
                   h_ret.copies[1].file_name
                     = << "s", "u", "b", "-", "1", "0", "2", "_", "s", "e", "s", "-", "0", "1", "_", "a", "c", "q", "-", "d", "y", "a", "d", "2", "0", "0", "2", "_", "t", "a", "s", "k", "-", "d", "r", "a", "w", "i", "n", "g", "a", "l", "o", "n", "e", "_", "a", "r", "t", "w", "o", "r", "k", ".", "j", "p", "g" >>

\* the file of the claim was processed with subject 102 in dyad 2002
C12_Witness ==
    /\ SoloProcessed
    /\ h_args.file_name = << "s", "u", "b", "-", "1", "0", "2", "-", "s", "o", "l", "o", "_", "s", "e", "s", "s", "i", "o", "n", "-", "1", ".", "j", "p", "g" >>
    /\ h_args.table[<< "1", "0", "2" >>] = << "2", "0", "0", "2" >>
    /\ h_ret.copies[1].file_name
         = << "s", "u", "b", "-", "1", "0", "2", "_", "s", "e", "s", "-", "0", "1", "_", "a", "c", "q", "-", "d", "y", "a", "d", "2", "0", "0", "2", "_", "t", "a", "s", "k", "-", "d", "r", "a", "w", "i", "n", "g", "a", "l", "o", "n", "e", "_", "a", "r", "t", "w", "o", "r", "k", ".", "j", "p", "g" >>

(***************************************************************************)
(* C13.  The destination name of a together artwork.                       *)
(***************************************************************************)
\* ses-{s}_acq-dyad{d}_task-codrawing{t}_artwork{ext}
TogetherName(s, d, t, ext) ==
    << "s", "e", "s", "-" >> \o s \o << "_", "a", "c", "q", "-", "d", "y", "a", "d" >> \o d \o << "_", "t", "a", "s", "k", "-", "c", "o", "d", "r", "a", "w", "i", "n", "g" >> \o t
        \o << "_", "a", "r", "t", "w", "o", "r", "k" >> \o ext

\* _prepare_together was given an info with a dyad, a task number and a
\* session
TogetherPrepared ==
    /\ h_call = "_prepare_together"
    /\ ~Falsy(h_args.info.dyad)
    /\ ~Falsy(h_args.info.task_num)
    /\ ~Falsy(h_args.info.ses)

\* a together file was processed, and copied
TogetherProcessed ==
    /\ h_call = "Artworks_process_parsed"
    /\ HasTogether(h_args.file_name)
    /\ ~h_args.copy_raises

\* C13 as stated: for every together artwork file with parsed dyad d, task
\* number t and session s, the destination name is exactly
\* ses-{s}_acq-dyad{d}_task-codrawing{t}_artwork{ext}, ext being the source
\* file's extension.
C13_AsStated ==
    /\ TogetherPrepared =>
           /\ h_ret.exc = ""
           /\ h_ret.value.new_name
                = TogetherName(h_args.info.ses, h_args.info.dyad,
                               h_args.info.task_num, h_args.file_suffix)
    /\ TogetherProcessed =>
           /\ Len(h_ret.copies) = 1
           /\ h_ret.copies[1].file_name
                = TogetherName(h_args.info.ses, h_args.info.dyad,
                               h_args.info.task_num, ExtOf(h_args.file_name))

\* C13 amended: the extension is lowered.  For every together artwork file
\* with parsed dyad d, task number t and session s, the destination name is
\* exactly ses-{s}_acq-dyad{d}_task-codrawing{t}_artwork{ext}, ext being the
\* source file's extension in lower case.
C13_TogetherName ==
    /\ TogetherPrepared =>
           /\ h_ret.exc = ""
           /\ h_ret.value.new_name
                = TogetherName(h_args.info.ses, h_args.info.dyad,
                               h_args.info.task_num,
                               LowerStr(h_args.file_suffix))
    /\ TogetherProcessed =>
           /\ h_ret.ok
           /\ Len(h_ret.copies) = 1
           /\ h_ret.copies[1].file_name
                = TogetherName(h_args.info.ses, h_args.info.dyad,
                               h_args.info.task_num,
                               LowerStr(ExtOf(h_args.file_name)))

\* DYAD-1001-d2_SESSION-3.TIF was processed: the extension is .tif
C13_Witness ==
    /\ TogetherProcessed
    /\ h_args.file_name = << "D", "Y", "A", "D", "-", "1", "0", "0", "1", "-", "d", "2", "_", "S", "E", "S", "S", "I", "O", "N", "-", "3", ".", "T", "I", "F" >>
    /\ h_ret.copies[1].file_name
         = << "s", "e", "s", "-", "0", "3", "_", "a", "c", "q", "-", "d", "y", "a", "d", "1", "0", "0", "1", "_", "t", "a", "s", "k", "-", "c", "o", "d", "r", "a", "w", "i", "n", "g", "2", "_", "a", "r", "t", "w", "o", "r", "k", ".", "t", "i", "f" >>

(***************************************************************************)
(* C14.  Partial success of a coordinates folder.                          *)
(***************************************************************************)
\* the folder name is sub-<S>_session-<M>, and nothing else
IsCoordFolder(f) ==
    /\ LitAt(f, 1, << "s", "u", "b", "-" >>)
    /\ DigitsAt(f, 5)
    /\ LET e1 == DigitRunEnd(f, 5)
       IN  /\ LitAt(f, e1 + 1, << "_", "s", "e", "s", "s", "i", "o", "n", "-" >>)
           /\ DigitsAt(f, e1 + 10)
           /\ DigitRunEnd(f, e1 + 10) = Len(f)

\* S and M of the folder name
CoordParts(f) ==
    LET e1 == DigitRunEnd(f, 5)
    IN  [S |-> SubSeq(f, 5, e1), M |-> SubSeq(f, e1 + 10, Len(f))]

\* a folder whose name parses and whose subject has a dyad was processed
CoordProcessed ==
    /\ h_call = "Coordinates_process_parsed"
    /\ IsCoordFolder(h_args.folder_name)
    /\ str(int(CoordParts(h_args.folder_name).S)) \in DOMAIN h_args.table

\* the known files of the folder that exist and whose copy does not fail
CopiedKnown ==
    (KnownFiles(h_args.folder_name) \cap h_args.on_disk) \ h_args.copy_fails

\* C14: for a coordinates folder whose name parses and whose subject has a
\* dyad, the folder is a success if and only if at least one of the three
\* known files exists and is copied; a folder with none of them is a
\* failure; with only <folder>.csv present (and copied) exactly one file is
\* copied and the folder is a success.
C14_PartialSuccess ==
    CoordProcessed =>
        /\ h_ret.exc = ""
        /\ h_ret.ok <=> CopiedKnown # {}
        /\ Len(h_ret.copies) = Cardinality(CopiedKnown)
        /\ KnownFiles(h_args.folder_name) \cap h_args.on_disk = {} => ~h_ret.ok
        /\ ( /\ KnownFiles(h_args.folder_name) \cap h_args.on_disk
                  = { h_args.folder_name \o << ".", "c", "s", "v" >> }
             /\ h_args.copy_fails = {} ) =>
               h_ret.ok /\ Len(h_ret.copies) = 1

\* sub-102_session-1 with only sub-102_session-1.csv: one copy, a success
C14_Witness ==
    /\ CoordProcessed
    /\ h_args.folder_name = << "s", "u", "b", "-", "1", "0", "2", "_", "s", "e", "s", "s", "i", "o", "n", "-", "1" >>
    /\ h_args.on_disk = { << "s", "u", "b", "-", "1", "0", "2", "_", "s", "e", "s", "s", "i", "o", "n", "-", "1", ".", "c", "s", "v" >> }
    /\ h_args.copy_fails = {}
    /\ h_ret.ok
    /\ Len(h_ret.copies) = 1

(***************************************************************************)
(* C15.  The names of the copied coordinates files.                        *)
(***************************************************************************)
\* the target suffix of a known file of the folder
TargetSuffix(folder_name, src_name) ==
    IF src_name = folder_name \o << ".", "c", "s", "v" >> THEN << "o", "p", "t", "o", "d", "e", "C", "o", "o", "r", "d", "i", "n", "a", "t", "e", "s", ".", "c", "s", "v" >>
    ELSE IF src_name = folder_name \o << "_", "d", "i", "s", "t", "a", "n", "c", "e", "s", ".", "c", "s", "v" >> THEN << "c", "h", "a", "n", "n", "e", "l", "L", "e", "n", "g", "t", "h", "s", ".", "c", "s", "v" >>
    ELSE << "d", "i", "s", "t", "a", "n", "c", "e", "s", "T", "o", "R", "o", "i", ".", "c", "s", "v" >>

\* C15: every file copied by the coordinates driver is named
\* sub-{sub}_ses-{ses}_acq-dyad{dyad}_{targetSuffix}, with <folder>.csv
\* mapped to optodeCoordinates.csv, <folder>_distances.csv to
\* channelLengths.csv and <folder>_optode_dist.csv to distancesToRoi.csv,
\* and is placed under sub-{sub}/ses-{ses} of the output root; no other file
\* of the folder is copied.
C15_CoordNames ==
    h_call = "Coordinates_process_parsed" =>
        \A k \in 1..Len(h_ret.copies) :
            LET c   == h_ret.copies[k]
                f   == h_args.folder_name
                sub == Pad2(CoordParts(f).S)
                ses == Pad2(CoordParts(f).M)
            IN  /\ IsCoordFolder(f)
                /\ c.source \in KnownFiles(f) \cap h_args.on_disk
                /\ c.file_name
                     = << "s", "u", "b", "-" >> \o sub \o << "_", "s", "e", "s", "-" >> \o ses \o << "_", "a", "c", "q", "-", "d", "y", "a", "d" >>
                         \o h_args.table[str(int(CoordParts(f).S))] \o << "_" >>
                         \o TargetSuffix(f, c.source)
                /\ c.target_dir = << << "s", "u", "b", "-" >> \o sub, << "s", "e", "s", "-" >> \o ses >>

\* the three files of sub-102_session-1 (dyad 2002) were copied, and
\* opto.mat was not
C15_Witness ==
    /\ h_call = "Coordinates_process_parsed"
    /\ h_args.folder_name = << "s", "u", "b", "-", "1", "0", "2", "_", "s", "e", "s", "s", "i", "o", "n", "-", "1" >>
    /\ << "o", "p", "t", "o", ".", "m", "a", "t" >> \in h_args.on_disk
    /\ Len(h_ret.copies) = 3
    /\ h_ret.copies[1].file_name = << "s", "u", "b", "-", "1", "0", "2", "_", "s", "e", "s", "-", "0", "1", "_", "a", "c", "q", "-", "d", "y", "a", "d", "2", "0", "0", "2", "_", "o", "p", "t", "o", "d", "e", "C", "o", "o", "r", "d", "i", "n", "a", "t", "e", "s", ".", "c", "s", "v" >>
    /\ h_ret.copies[2].file_name = << "s", "u", "b", "-", "1", "0", "2", "_", "s", "e", "s", "-", "0", "1", "_", "a", "c", "q", "-", "d", "y", "a", "d", "2", "0", "0", "2", "_", "c", "h", "a", "n", "n", "e", "l", "L", "e", "n", "g", "t", "h", "s", ".", "c", "s", "v" >>
    /\ h_ret.copies[3].file_name = << "s", "u", "b", "-", "1", "0", "2", "_", "s", "e", "s", "-", "0", "1", "_", "a", "c", "q", "-", "d", "y", "a", "d", "2", "0", "0", "2", "_", "d", "i", "s", "t", "a", "n", "c", "e", "s", "T", "o", "R", "o", "i", ".", "c", "s", "v" >>
    /\ h_ret.copies[3].source = << "s", "u", "b", "-", "1", "0", "2", "_", "s", "e", "s", "s", "i", "o", "n", "-", "1", "_", "o", "p", "t", "o", "d", "e", "_", "d", "i", "s", "t", ".", "c", "s", "v" >>

(***************************************************************************)
(* C17.  The names of the copied motion-capture files.                     *)
(***************************************************************************)
\* the fixed table of task names
TaskNameOf(task_num) ==
    IF task_num = << "1" >> THEN << "d", "r", "a", "w", "i", "n", "g", "a", "l", "o", "n", "e" >>
    ELSE IF task_num = << "2" >> THEN << "c", "o", "d", "r", "a", "w", "i", "n", "g", "1" >>
    ELSE IF task_num = << "3" >> THEN << "c", "o", "d", "r", "a", "w", "i", "n", "g", "2" >>
    ELSE << "c", "o", "l", "l", "a", "b", "o", "r", "a", "t", "i", "v", "e", "t", "a", "s", "k" >>

\* C17: every motion-capture file that is copied gets the name
\* sub-dyad{dyad}_ses-{ses}_acq-dyad{dyad}_task-{taskName}_mocap.csv, where
\* taskName is the image of the parsed task number under the table
\* 1 -> drawingalone, 2 -> codrawing1, 3 -> codrawing2,
\* 4 -> collaborativetask.
C17_MocapName ==
    h_call = "MoCap_process_parsed" =>
        \A k \in 1..Len(h_ret.copies) :
            /\ h_args.info.task_num \in { << "1" >>, << "2" >>, << "3" >>, << "4" >> }
            /\ h_ret.copies[k].file_name
                 = << "s", "u", "b", "-", "d", "y", "a", "d" >> \o h_args.info.dyad \o << "_", "s", "e", "s", "-" >> \o h_args.info.ses
                     \o << "_", "a", "c", "q", "-", "d", "y", "a", "d" >> \o h_args.info.dyad \o << "_", "t", "a", "s", "k", "-" >>
                     \o TaskNameOf(h_args.info.task_num) \o << "_", "m", "o", "c", "a", "p", ".", "c", "s", "v" >>

\* a file of dyad 2002, session 01, task 2 was copied
C17_Witness ==
    /\ h_call = "MoCap_process_parsed"
    /\ h_args.info.task_num = << "2" >>
    /\ Len(h_ret.copies) = 1
    /\ h_ret.copies[1].file_name
         = << "s", "u", "b", "-", "d", "y", "a", "d", "2", "0", "0", "2", "_", "s", "e", "s", "-", "0", "1", "_", "a", "c", "q", "-", "d", "y", "a", "d", "2", "0", "0", "2", "_", "t", "a", "s", "k", "-", "c", "o", "d", "r", "a", "w", "i", "n", "g", "1", "_", "m", "o", "c", "a", "p", ".", "c", "s", "v" >>

(***************************************************************************)
(* C20.  Validation of the required keys.                                  *)
(***************************************************************************)
\* the required keys that are absent or empty in the info
MissingKeys(info, keys) ==
    { keys[i] : i \in { j \in 1..Len(keys) :
                          info[keys[j]] = None \/ info[keys[j]] = << >> } }

\* the message lists exactly the keys of S, each once
ListsExactly(message, S) ==
    /\ { message.missing[i] : i \in 1..Len(message.missing) } = S
    /\ Len(message.missing) = Cardinality(S)

TogetherKeys == << "dyad", "ses", "task_num" >>
SoloKeys     == << "dyad", "ses", "sub" >>
CoordKeys    == << "sub", "ses", "dyad" >>
MocapKeys    == << "dyad", "ses", "task_num" >>

\* a validation was called: it fails exactly when a key is missing, and its
\* message lists the missing keys
ValidationIff(keys) ==
    /\ h_ret.exc \in { "", "ValueError" }
    /\ h_ret.exc = "ValueError" <=> MissingKeys(h_args.info, keys) # {}
    /\ h_ret.exc = "ValueError" =>
           ListsExactly(h_ret.message, MissingKeys(h_args.info, keys))

\* a candidate with a parsed info was processed: a missing key makes it a
\* failure (the value False, which the run counts as a failure) with the
\* missing keys logged, and nothing is copied
FailureOnMissing(keys) ==
    (~h_args.info.none /\ MissingKeys(h_args.info, keys) # {}) =>
        /\ h_ret.exc = ""
        /\ ~h_ret.ok
        /\ h_ret.copies = << >>
        /\ ListsExactly(h_ret.error, MissingKeys(h_args.info, keys))

\* C20: for each driver's required-key list (together artworks: dyad, ses,
\* task_num; solo artworks: dyad, ses, sub; coordinates: sub, ses, dyad;
\* motion-capture: dyad, ses, task_num), validation fails if and only if at
\* least one required key is absent or empty in the parsed info, the error
\* message lists exactly the missing keys, the file is a failure and nothing
\* is copied for it.
C20_RequiredKeys ==
    /\ h_call \in { "Artworks_validate_metadata", "Base_validate_metadata" } =>
           ValidationIff(h_args.keys)
    /\ h_call = "_prepare_together" => ValidationIff(TogetherKeys)
    /\ h_call = "_prepare_solo" => ValidationIff(SoloKeys)
    /\ h_call = "Artworks_process_parsed" =>
           FailureOnMissing(IF h_args.info.task = Together
                            THEN TogetherKeys ELSE SoloKeys)
    /\ h_call = "Coordinates_process_parsed" => FailureOnMissing(CoordKeys)
    /\ h_call = "MoCap_process_parsed" => FailureOnMissing(MocapKeys)

\* the folder sub-5_session-2 holds its three files but subject 5 has no
\* dyad: a failure that names dyad, and no copy
C20_Witness ==
    /\ h_call = "Coordinates_process_parsed"
    /\ h_args.folder_name = << "s", "u", "b", "-", "5", "_", "s", "e", "s", "s", "i", "o", "n", "-", "2" >>
    /\ KnownFiles(h_args.folder_name) \subseteq h_args.on_disk
    /\ h_args.copy_fails = {}
    /\ ~h_ret.ok
    /\ h_ret.copies = << >>
    /\ h_ret.error.missing = << "dyad" >>

(***************************************************************************)
(* C14, C16, C18, C19.  The runs of the converters.                        *)
(***************************************************************************)
\* the run is over: it returned early, it completed, or an exception left it
RunOver == drv_pc \in { "returned", "complete", "raised" }

\* the candidates of the run, as entries of the source directory
Candidates == { EntryOf(drv_listing, drv_files[k]) : k \in 1..Len(drv_files) }

\* the copies the run made from the folder e
CopiesFrom(e) == SelectSeq(copied, LAMBDA c : c.source \in e.files)

\* C14: for a coordinates folder whose name parses and whose subject has a
\* dyad, the folder is reported as a success if and only if at least one of
\* the three known files exists and is copied, and with only <folder>.csv
\* present exactly one file is copied and the folder is a success.  Stated
\* on a run of CoordinatesConverter that is over: a candidate folder
\* sub-<S>_session-<M> that holds only its <folder>.csv has exactly one file
\* copied and is counted in the reported successes.
C14_AsStated ==
    (drv = "coordinates" /\ RunOver) =>
        \A e \in Candidates :
            (IsCoordFolder(e.name) /\ e.files = { e.name \o << ".", "c", "s", "v" >> }) =>
                /\ Len(CopiesFrom(e)) = 1
                /\ Len(reported) = 1
                /\ reported[1].success >= 1

\* C16: a motion-capture file whose task number is not one of 1, 2, 3, 4 is
\* a failure for that file only, and every other file in the same run is
\* still processed and counted normally.  Stated on a run of MoCapConverter
\* that is over and had the candidate dyad-1001_session-1_task-9.csv: no
\* exception left the run, every candidate was processed and counted, the
\* file is among the failures and no copy was made of it.
C16_AsStated ==
    (/\ drv = "mocap"
     /\ RunOver
     /\ \E e \in Candidates : e.name = << "d", "y", "a", "d", "-", "1", "0", "0", "1", "_", "s", "e", "s", "s", "i", "o", "n", "-", "1", "_", "t", "a", "s", "k", "-", "9", ".", "c", "s", "v" >>) =>
        /\ drv_pc = "complete"
        /\ drv_i = Len(drv_files)
        /\ success_count + fail_count = Len(drv_files)
        /\ fail_count >= 1
        /\ \A k \in 1..Len(copied) :
               copied[k].source # << "d", "y", "a", "d", "-", "1", "0", "0", "1", "_", "s", "e", "s", "s", "i", "o", "n", "-", "1", "_", "t", "a", "s", "k", "-", "9", ".", "c", "s", "v" >>

\* C18: in every driver loop a failure while processing one file is caught
\* at that file's boundary and recorded as a failure of that file, and the
\* loop goes on, so every candidate of the list is processed and no
\* per-file failure ends the run early.  Stated on every run that entered
\* its loop: no exception leaves the loop, and once the run is over every
\* candidate has been processed and counted once.
C18_AsStated ==
    /\ drv_pc # "raised"
    /\ (RunOver /\ drv_files # << >>) =>
           /\ drv_i = Len(drv_files)
           /\ success_count + fail_count = Len(drv_files)

\* C19: every run of every category driver ends by reporting an aggregate
\* success count and failure count for that category.
C19_AsStated ==
    RunOver =>
        /\ Len(reported) = 1
        /\ reported[1].success + reported[1].failures = Len(drv_files)

(***************************************************************************)
(* C21.  The acquisition label of a recording.                             *)
(***************************************************************************)
\* the key under which the subject of the recording f is looked up
DyadKeyOf(f) == str(int(FirstTagDigits(f, L_sub)))

\* the recording of file f was written, with the acquisition label a
WrittenWithAcq(f, a) ==
    \E k \in 1..Len(written) :
        written[k].file = f /\ written[k].acquisition = a

\* C21: for a recording with parsed subject s, the acquisition label is
\* "dyad" followed by d exactly when the dyad map has an entry d under the
\* key str(int(s)), and is absent otherwise; a recording with no dyad entry
\* is still converted and is not a failure.  Stated on a recordings run that
\* is over: every parsable recording was written, with the label dyad<d>
\* when its subject has the entry d and with no label otherwise.
C21_AsStated ==
    nirs_pc \in {"complete", "raised"} =>
        \A k \in 1..Len(snirf_files) :
            LET f == snirf_files[k] IN
            Parsable(f) =>
                IF DyadKeyOf(f) \in DOMAIN self_dyad_lookup
                THEN WrittenWithAcq(f, << "d", "y", "a", "d" >>
                                        \o self_dyad_lookup[DyadKeyOf(f)])
                ELSE WrittenWithAcq(f, None)

(***************************************************************************)
(* C22.  The ages of the participant table.                                *)
(***************************************************************************)
\* the subject id of a row, with its leading zeros stripped
NormalizedSubject(row) == str(int(replace_sub(row.participant_id)))

\* the ages the demographics items hold for the subject s
AgesFor(items, s) ==
    { items[k].meta.age : k \in { j \in 1..Len(items) :
                                    split_first(items[j].key) = s } }

\* C22: after recordings finalization, every row of the generated
\* participant table whose subject id, normalized by stripping leading
\* zeros, equals the subject part of a demographics key has its Age cell
\* overwritten with an age from the demographics map for that subject (so
\* sub-07 is matched by the key 7_01); rows with no such match keep their
\* Age.
C22_AsStated ==
    (h_call = "_post_process_participants_tsv" /\ h_args.tsv.exists) =>
        /\ Len(h_ret.tsv.rows) = Len(h_args.tsv.rows)
        /\ \A i \in 1..Len(h_args.tsv.rows) :
               LET row == h_args.tsv.rows[i]
                   ages == AgesFor(h_args.items, NormalizedSubject(row))
               IN  /\ h_ret.tsv.rows[i].participant_id = row.participant_id
                   /\ IF ages # {}
                      THEN h_ret.tsv.rows[i].age \in ages
                      ELSE h_ret.tsv.rows[i].age = row.age

(***************************************************************************)
(* C23.  An artwork file that matches no pattern.                          *)
(***************************************************************************)
\* the name matches the dyad pattern or the solo pattern
MatchesArtwork(f) == HasTogether(f) \/ \E i \in 1..Len(f) : SoloAt(f, i)

\* the candidates of the run that match no pattern
Unmatched == { k \in 1..Len(drv_files) : ~MatchesArtwork(drv_files[k]) }

\* C23: an artwork file whose name matches neither the dyad pattern nor the
\* solo pattern yields no parse result, is not copied, and is treated by the
\* artwork driver as a silent skip rather than an error: it does not
\* increment the failure count.  Stated on a run of ArtworksConverter that
\* is over and had such a candidate: the run completed, no copy was made of
\* the file, and the failures counted are at most the other candidates.
C23_AsStated ==
    (drv = "artworks" /\ RunOver /\ Unmatched # {}) =>
        /\ drv_pc = "complete"
        /\ \A k \in Unmatched :
               /\ parse_artwork_filename(<< >>, drv_files[k]).none
               /\ \A c \in 1..Len(copied) : copied[c].source # drv_files[k]
        /\ fail_count <= Len(drv_files) - Cardinality(Unmatched)

\* ArtworksConverter._process_single_file from "if not info" on: a name that
\* matches no pattern gives the value False, which run adds to
\* failure_count, and no copy
C23_SkipReturnsFalse ==
    (h_call = "Artworks_process_parsed" /\ ~MatchesArtwork(h_args.file_name)) =>
        /\ h_args.info.none
        /\ ~h_ret.ok
        /\ h_ret.exc = ""
        /\ h_ret.copies = << >>

(***************************************************************************)
(* C24.  The patch of the coordinate-system sidecars.                      *)
(***************************************************************************)
\* the path is a coordinate-system sidecar
IsCoordsystem(p) ==
    /\ Len(p) >= 17
    /\ SubSeq(p, Len(p) - 16, Len(p)) = << "_", "c", "o", "o", "r", "d", "s", "y", "s", "t", "e", "m", ".", "j", "s", "o", "n" >>

\* the sidecar holds the field
HasDescription(data) == "NIRSCoordinateProcessingDescription" \in DOMAIN data

\* C24: patch_nirs_coords sets NIRSCoordinateProcessingDescription to "n/a"
\* in exactly those coordinate-system sidecars that lack the field:
\* afterwards every such sidecar has the field, a sidecar that already had it
\* keeps its value and is not rewritten, every other field is unchanged, and
\* running the patch a second time changes nothing.
C24_Patch ==
    h_call = "patch_nirs_coords" =>
        LET before == h_args.tree
            after == h_ret.first.tree
        IN  /\ DOMAIN after = DOMAIN before
            /\ \A p \in DOMAIN before :
                   IF IsCoordsystem(p) /\ ~HasDescription(before[p])
                   THEN /\ HasDescription(after[p])
                        /\ after[p]["NIRSCoordinateProcessingDescription"] = "n/a"
                        /\ p \in h_ret.first.written
                        /\ DOMAIN after[p] = DOMAIN before[p]
                               \cup { "NIRSCoordinateProcessingDescription" }
                        /\ \A k \in DOMAIN before[p] : after[p][k] = before[p][k]
                   ELSE /\ after[p] = before[p]
                        /\ p \notin h_ret.first.written
            /\ \A p \in DOMAIN after :
                   IsCoordsystem(p) => HasDescription(after[p])
            /\ h_ret.second.tree = after
            /\ h_ret.second.written = {}

\* one sidecar lacks the field and has another field, one sidecar holds the
\* field with the value Other: only the first is written
C24_Witness ==
    /\ h_call = "patch_nirs_coords"
    /\ \E p, q \in DOMAIN h_args.tree :
          /\ IsCoordsystem(p) /\ IsCoordsystem(q)
          /\ ~HasDescription(h_args.tree[p])
          /\ "NIRSCoordinateSystem" \in DOMAIN h_args.tree[p]
          /\ HasDescription(h_args.tree[q])
          /\ h_args.tree[q]["NIRSCoordinateProcessingDescription"] = "Other"
          /\ h_ret.first.written = { p }
          /\ h_ret.first.tree[q]["NIRSCoordinateProcessingDescription"] = "Other"
          /\ h_ret.first.tree[p]["NIRSCoordinateProcessingDescription"] = "n/a"

(***************************************************************************)
(* C25.  A source root directory that is missing.                          *)
(***************************************************************************)
\* C25: a missing source root directory for an explicitly requested category
\* is detected before the per-file loop starts and never mid-loop: in that
\* run no candidate file is parsed, copied or counted, and the output root
\* is not created.
C25_MissingSource ==
    drv_source = "missing" =>
        /\ drv_pc \in { "start", "returned" }
        /\ drv_files = << >>
        /\ drv_i = 0
        /\ copied = << >>
        /\ success_count = 0
        /\ fail_count = 0
        /\ ~output_made

\* a run over a missing source directory has returned
C25_Witness ==
    /\ drv_source = "missing"
    /\ drv_pc = "returned"

\* the same for NirsConverter.run
C25_NirsMissingSource ==
    source_dir = "missing" =>
        /\ nirs_pc \in { "start", "returned" }
        /\ snirf_files = << >>
        /\ nirs_i = 0
        /\ written = << >>
        /\ ~bids_root_made

(***************************************************************************)
(* C26.  The finalization of a recordings run.                             *)
(***************************************************************************)
\* the recordings run is over: it returned early, it completed, or an
\* exception left it
NirsRunOver == nirs_pc \in { "returned", "complete", "raised" }

\* C26: in every recordings run that passes path validation, finalization
\* (dataset description written, coordinate-system sidecars patched,
\* participant-table ages back-patched) is performed exactly once, in that
\* order, and only after the last candidate file has been processed; no
\* finalization step runs between two files.
C26_AsStated ==
    /\ (nirs_pc = "loop" /\ nirs_i < Len(snirf_files)) => finalization = << >>
    /\ finalization # << >> => nirs_i = Len(snirf_files)
    /\ (source_dir = "exists" /\ NirsRunOver) =>
           finalization = << "generate_description", "patch_nirs_coords",
                             "_post_process_participants_tsv" >>

(***************************************************************************)
(* C27.  The two counters of a run.                                        *)
(***************************************************************************)
\* C27: in the artworks, coordinates and motion-capture driver loops, each
\* processed file increments exactly one of the success and failure
\* counters by one: at every step success count + failure count equals the
\* number of files processed so far, at the end it equals the number of
\* candidate files, and the counters are changed nowhere outside the loop.
C27_AsStated ==
    /\ success_count + fail_count = drv_i
    /\ drv_pc \in { "start", "validated" } =>
           success_count = 0 /\ fail_count = 0
    /\ RunOver => success_count + fail_count = Len(drv_files)

\* the part of C27 that holds: the counters move only in the loop, and
\* together they count the files whose processing returned
C27_CountsProcessed ==
    /\ success_count + fail_count = drv_i
    /\ drv_pc \in { "start", "validated" } =>
           success_count = 0 /\ fail_count = 0

(***************************************************************************)
(* C28.  The destinations of two files of one run.                         *)
(***************************************************************************)
\* where the copy of a successful outcome was written
DestPath(outcome) ==
    << outcome.copies[1].target_dir, outcome.copies[1].file_name >>

CategoryKey(job) ==
    CASE job = "run_nirs_job" -> "NIRS"
      [] job = "run_artworks_job" -> "Art"
      [] job = "run_coordinates_job" -> "Coord"
      [] job = "run_mocap_job" -> "MoCap"

\* C29: each job wrapper runs its category's driver if and only if that same
\* category's key is present in the configuration's Sources: NIRS for
\* run_nirs_job, Art for run_artworks_job, Coord for run_coordinates_job and
\* MoCap for run_mocap_job; a job whose key is absent processes no file.
C29_AsStated ==
    h_call = "run_job" =>
        /\ h_ret.ran <=> CategoryKey(h_args.job) \in h_args.sources
        /\ CategoryKey(h_args.job) \notin h_args.sources =>
               (~h_ret.ran \/ h_ret.source_dir = "None")

\* the three other wrappers do test their own key
C29_OtherJobs ==
    (h_call = "run_job" /\ h_args.job # "run_mocap_job") =>
        (h_ret.ran <=> CategoryKey(h_args.job) \in h_args.sources)

(***************************************************************************)
(* C30.  The keys of the dyad map.                                         *)
(***************************************************************************)
\* the key is the decimal string of a non-negative integer, with no leading
\* zeros
DecimalKey(k) == IntOk(k) /\ k = str(int(k))

\* the table has an empty pID cell
HasEmptyCell(rows) ==
    \E o \in PidCellsOf(rows) : PidCell(rows, o[1], o[2]) = NaN

====
